---------------------------- MODULE Spec2Model ----------------------------
(***************************************************************************)
(* A model of prompster (src/prompster.py): the Flask server's tree        *)
(* listing (/api/tree) and snapshot assembly (/api/copy), and the browser  *)
(* script's selection model (checkMap / allowMap / the rendered            *)
(* checkboxes).                                                            *)
(*                                                                         *)
(* Strings are sequences of one-character strings, so that glob matching,  *)
(* lower-casing and string comparison are computed, not assumed.  A path   *)
(* is a sequence of names; an absolute path starts at the filesystem root. *)
(***************************************************************************)
EXTENDS Integers, Sequences, FiniteSets, TLC

(***************************************************************************)
(* Characters and strings                                                  *)
(***************************************************************************)

\* The characters the model uses, in code point order ("TICK" stands for the
\* backtick, U+0060).
Ascii ==
    << "*", ".", "/", "0", "5", "<", ">", "?",
       "A", "B", "C", "D", "E", "H", "S", "_", "TICK",
       "a", "b", "c", "d", "e", "f", "g", "h", "i", "j", "k", "l", "m",
       "n", "o", "p", "q", "r", "s", "t", "u", "v", "w", "x", "y", "z" >>

Ord(c) == CHOOSE i \in 1..Len(Ascii) : Ascii[i] = c

\* str.lower() on one character
LowerChar(c) ==
    CASE c = "A" -> "a" [] c = "B" -> "b" [] c = "C" -> "c" [] c = "D" -> "d"
      [] c = "E" -> "e" [] c = "H" -> "h" [] c = "S" -> "s" [] OTHER -> c

\* str.lower()
Lower(s) == [i \in 1..Len(s) |-> LowerChar(s[i])]

\* Python's s < t on strings: lexicographic by code point.
RECURSIVE StrLess(_, _)
StrLess(s, t) ==
    IF t = <<>> THEN FALSE
    ELSE IF s = <<>> THEN TRUE
    ELSE IF Head(s) = Head(t) THEN StrLess(Tail(s), Tail(t))
    ELSE Ord(Head(s)) < Ord(Head(t))

\* Length of the longest run of character c in s.
RECURSIVE RunAt(_, _, _)
RunAt(s, i, c) == IF i > Len(s) \/ s[i] # c THEN 0 ELSE 1 + RunAt(s, i + 1, c)

Max(a, b) == IF a >= b THEN a ELSE b
Min(a, b) == IF a <= b THEN a ELSE b

LongestRun(s, c) ==
    LET runs == {RunAt(s, i, c) : i \in 1..Len(s)}
    IN  IF runs = {} THEN 0 ELSE CHOOSE m \in runs : \A r \in runs : r <= m

RECURSIVE JoinWith(_, _)
JoinWith(segs, sep) ==
    IF segs = <<>> THEN <<>>
    ELSE IF Len(segs) = 1 THEN segs[1]
    ELSE segs[1] \o sep \o JoinWith(Tail(segs), sep)

Front(s) == SubSeq(s, 1, Len(s) - 1)
Last(s) == s[Len(s)]
IsPrefix(p, s) == Len(p) <= Len(s) /\ SubSeq(s, 1, Len(p)) = p
Range(s) == {s[i] : i \in 1..Len(s)}

\* Python's seq[lo : hi] for integers lo, hi (negative indices count from the end).
PySlice(s, lo, hi) ==
    LET n == Len(s)
        norm(i) == IF i < 0 THEN Max(n + i, 0) ELSE Min(i, n)
        a == norm(lo)
        b == norm(hi)
    IN  IF a >= b THEN <<>> ELSE SubSeq(s, a + 1, b)

(***************************************************************************)
(* fnmatch.fnmatch on POSIX: the whole name must match the pattern;        *)
(* "*" matches any run of characters ("/" included), "?" any one           *)
(* character, every other character itself.  (No pattern of the model      *)
(* holds a bracket expression.)                                            *)
(***************************************************************************)
RECURSIVE fnmatch(_, _)
fnmatch(name, pat) ==
    IF pat = <<>> THEN name = <<>>
    ELSE IF Head(pat) = "*"
         THEN fnmatch(name, Tail(pat))
              \/ (name # <<>> /\ fnmatch(Tail(name), pat))
    ELSE IF Head(pat) = "?"
         THEN name # <<>> /\ fnmatch(Tail(name), Tail(pat))
    ELSE name # <<>> /\ Head(name) = Head(pat) /\ fnmatch(Tail(name), Tail(pat))

(***************************************************************************)
(* Names                                                                   *)
(***************************************************************************)
n_srv    == << "s", "r", "v" >>
n_repo   == << "r", "e", "p", "o" >>
n_etc    == << "e", "t", "c" >>
n_passwd == << "p", "a", "s", "s", "w", "d" >>
n_a      == << "a" >>
n_C      == << "C" >>
n_git    == << ".", "g", "i", "t" >>
n_config == << "c", "o", "n", "f", "i", "g" >>
n_refs   == << "r", "e", "f", "s" >>
n_btxt   == << "b", ".", "t", "x", "t" >>
n_build  == << "b", "u", "i", "l", "d" >>
n_xjs    == << "x", ".", "j", "s" >>
n_env    == << ".", "e", "n", "v" >>
n_tpyc   == << "t", ".", "p", "y", "c" >>
n_out    == << "o", "u", "t" >>
n_up     == << "u", "p" >>
n_HEAD   == << "H", "E", "A", "D" >>
n_gone   == << "g", "o", "n", "e" >>
\* A file name made of three backticks and ".md"
n_ticks  == << "TICK", "TICK", "TICK", ".", "m", "d" >>
DotDot   == << ".", "." >>


(***************************************************************************)
(* Configuration / constants                                               *)
(***************************************************************************)
\* ROOT = Path(...).resolve(): the configured root, here /srv/repo.
ROOT == << n_srv, n_repo >>

IGNORE_DEFAULTS ==
    << << ".", "g", "i", "t", "/" >>,
       << ".", "h", "g", "/" >>,
       << ".", "s", "v", "n", "/" >>,
       << "_", "_", "p", "y", "c", "a", "c", "h", "e", "_", "_", "/" >>,
       << ".", "m", "y", "p", "y", "_", "c", "a", "c", "h", "e", "/" >>,
       << ".", "p", "y", "t", "e", "s", "t", "_", "c", "a", "c", "h", "e", "/" >>,
       << ".", "t", "o", "x", "/" >>,
       << "n", "o", "d", "e", "_", "m", "o", "d", "u", "l", "e", "s", "/" >>,
       << "v", "e", "n", "v", "/" >>,
       << ".", "v", "e", "n", "v", "/" >>,
       << "e", "n", "v", "/" >>,
       << ".", "i", "p", "y", "n", "b", "_", "c", "h", "e", "c", "k", "p", "o", "i", "n", "t", "s", "/" >>,
       << "b", "u", "i", "l", "d", "/" >>,
       << "d", "i", "s", "t", "/" >>,
       << "*", ".", "p", "y", "c" >>,
       << ".", "D", "S", "_", "S", "t", "o", "r", "e" >> >>

\* No .prompsterignore file in the modelled root: the defaults alone.
IGNORE_PATTERNS == IGNORE_DEFAULTS

(***************************************************************************)
(* The filesystem: read-only for the session.  An entry is a directory, a  *)
(* regular file (with its bytes) or a symbolic link (with its target).     *)
(* The order of FSEntries is the order os.scandir yields the entries in.   *)
(*                                                                         *)
(*   /etc/passwd                      outside the root                     *)
(*   /srv/repo/C/.env  t.pyc  out -> /etc/passwd  up -> /srv/repo/C         *)
(*   /srv/repo/C/build/x.js                                                 *)
(*   /srv/repo/.git/HEAD                                                    *)
(*   /srv/repo/a/b.txt                                                      *)
(*   /srv/repo/a/.git/config  refs/                                         *)
(***************************************************************************)
Dir(p)        == [path |-> p, kind |-> "dir",  target |-> <<>>, content |-> <<>>]
File(p, c)    == [path |-> p, kind |-> "file", target |-> <<>>, content |-> c]
Link(p, t)    == [path |-> p, kind |-> "link", target |-> t,    content |-> <<>>]

FSEntries ==
    << Dir(<< n_etc >>),
       File(<< n_etc, n_passwd >>, << "s" >>),
       Dir(<< n_srv >>),
       Dir(ROOT),
       Dir(ROOT \o << n_C >>),
       Dir(ROOT \o << n_git >>),
       Dir(ROOT \o << n_a >>),
       File(ROOT \o << n_git, n_HEAD >>, << "h" >>),
       File(ROOT \o << n_a, n_btxt >>, << "x", "x" >>),
       Dir(ROOT \o << n_a, n_git >>),
       File(ROOT \o << n_a, n_git, n_config >>, << "x", "TICK", "x" >>),
       Dir(ROOT \o << n_a, n_git, n_refs >>),
       File(ROOT \o << n_C, n_env >>, << "x", "NUL", "x" >>),
       File(ROOT \o << n_C, n_tpyc >>, << "NUL" >>),
       Link(ROOT \o << n_C, n_out >>, << n_etc, n_passwd >>),
       Link(ROOT \o << n_C, n_up >>, ROOT \o << n_C >>),
       Dir(ROOT \o << n_C, n_build >>),
       File(ROOT \o << n_C, n_build, n_xjs >>, << "x", "TICK", "TICK", "TICK" >>) >>

FSPaths == {FSEntries[i].path : i \in 1..Len(FSEntries)}
Entry(p) == FSEntries[CHOOSE i \in 1..Len(FSEntries) : FSEntries[i].path = p]

\* lstat: what the path itself is (no link followed); "none" when nothing is there.
KindOf(p) == IF p = <<>> THEN "dir" ELSE IF p \in FSPaths THEN Entry(p).kind ELSE "none"

\* Path.resolve(): ".." and symbolic links resolved, left to right; a
\* component that does not exist is kept (non-strict).
RECURSIVE Resolve(_)
Resolve(p) ==
    IF p = <<>> THEN <<>>
    ELSE LET par == Resolve(Front(p))
             n   == Last(p)
         IN  IF n = DotDot THEN (IF par = <<>> THEN <<>> ELSE Front(par))
             ELSE LET q == Append(par, n)
                  IN  IF KindOf(q) = "link" THEN Resolve(Entry(q).target) ELSE q

\* Path.exists(), Path.is_dir(), Path.is_file(): links followed.
Exists(p) == KindOf(Resolve(p)) # "none"
IsDir(p)  == KindOf(Resolve(p)) = "dir"
IsFile(p) == KindOf(Resolve(p)) = "file"

\* os.scandir(d): the entries of directory d, in directory order.
ScanDir(d) ==
    SelectSeq(FSEntries, LAMBDA e : Len(e.path) = Len(d) + 1 /\ Front(e.path) = d)

\* _is_relative_to(path, parent): path.relative_to(parent) does not raise.
is_relative_to(path, parent) == IsPrefix(parent, path)

\* path.relative_to(ROOT).as_posix()
RelPosix(abs) ==
    LET rel == SubSeq(abs, Len(ROOT) + 1, Len(abs))
    IN  IF rel = <<>> THEN << "." >> ELSE JoinWith(rel, << "/" >>)

\* (mutant) a directory-only pattern applied to files as well
PatternIgnoresAnyKind(pat, rel_posix, is_dir) ==
    IF Last(pat) = "/"
    THEN fnmatch(rel_posix \o << "/" >>, pat)
    ELSE fnmatch(rel_posix, pat)

\* _ignored(rel_posix, is_dir)
PatternIgnores(pat, rel_posix, is_dir) ==
    IF Last(pat) = "/"
    THEN is_dir /\ fnmatch(rel_posix \o << "/" >>, pat)
    ELSE fnmatch(rel_posix, pat)

ignored(rel_posix, is_dir) ==
    \E i \in 1..Len(IGNORE_PATTERNS) : PatternIgnores(IGNORE_PATTERNS[i], rel_posix, is_dir)

\* (mutant) the scan loop without .resolve(): the entry's own path is tested.
ScanTupleUnresolved(e) ==
    LET isdir     == e.kind = "dir"
        abs_child == e.path
    IN  IF ~is_relative_to(abs_child, ROOT) THEN <<>>
        ELSE IF ignored(RelPosix(abs_child), isdir) THEN <<>>
        ELSE << [name |-> Last(e.path), isdir |-> isdir, rel |-> RelPosix(abs_child),
                 abs |-> abs_child, epath |-> e.path] >>

\* The scan loop of _children_of for one directory entry: the tuple it
\* appends, or nothing.
ScanTuple(e) ==
    LET isdir     == e.kind = "dir"
        abs_child == Resolve(e.path)
    IN  IF ~is_relative_to(abs_child, ROOT) THEN <<>>
        ELSE IF ignored(RelPosix(abs_child), isdir) THEN <<>>
        ELSE << [name |-> Last(e.path), isdir |-> isdir, rel |-> RelPosix(abs_child),
                 abs |-> abs_child, epath |-> e.path] >>

RECURSIVE ScanEntries(_)
ScanEntries(es) ==
    IF es = <<>> THEN <<>> ELSE ScanTuple(Head(es)) \o ScanEntries(Tail(es))

\* (mutant) the sort key without .lower()
KeyLessCaseSensitive(x, y) ==
    \/ x.isdir /\ ~y.isdir
    \/ x.isdir = y.isdir /\ StrLess(x.name, y.name)

\* The sort key of _children_of: (not isdir, name.lower()), compared as tuples.
KeyLess(x, y) ==
    \/ x.isdir /\ ~y.isdir
    \/ x.isdir = y.isdir /\ StrLess(Lower(x.name), Lower(y.name))

\* list.sort(key=...): stable.
RECURSIVE InsertSorted(_, _)
InsertSorted(x, s) ==
    IF s = <<>> THEN << x >>
    ELSE IF KeyLess(x, Head(s)) THEN << x >> \o s
    ELSE << Head(s) >> \o InsertSorted(x, Tail(s))

RECURSIVE SortEntries(_)
SortEntries(s) ==
    IF s = <<>> THEN <<>> ELSE InsertSorted(Last(s), SortEntries(Front(s)))

\* The directories of the filesystem that lie inside the root.
RootDirs == {p \in FSPaths : KindOf(p) = "dir" /\ IsPrefix(ROOT, p)}

\* The scan of each directory, filtered (the filesystem does not change, so
\* every call scans the same entries).
Scanned == [d \in RootDirs |-> ScanEntries(ScanDir(d))]

\* entries.sort(...) of the scan
Sorted == [d \in RootDirs |-> SortEntries(Scanned[d])]

\* The quick probe: does the directory hold any in-root, non-ignored child?
HasChildren(epath) == Scanned[epath] # <<>>

\* e.stat(follow_symlinks=False).st_size
LStatSize(epath) ==
    IF KindOf(epath) = "link"
    THEN Len(JoinWith(Entry(epath).target, << "/" >>)) + 1
    ELSE Len(Entry(epath).content)

MakeNode(t) ==
    [name |-> t.name, path |-> t.rel, fullPath |-> t.abs, is_dir |-> t.isdir,
     keys |-> IF t.isdir THEN {"hasChildren"} ELSE {"size"},
     hasChildren |-> t.isdir /\ HasChildren(t.epath),
     size |-> IF t.isdir THEN 0 ELSE LStatSize(t.epath)]

\* (mutant) entries[offset : limit]
PageSliceToLimit(entries, offset, limit) == PySlice(entries, offset, limit)

\* entries[offset : offset + limit]
PageSlice(entries, offset, limit) == PySlice(entries, offset, offset + limit)

\* "has_more": (offset + limit) < total
HasMore(offset, limit, total) == (offset + limit) < total

\* _children_of(dir_path, offset, limit)
children_of(dir_path, offset, limit) ==
    LET entries == Sorted[dir_path]
        page    == PageSlice(entries, offset, limit)
    IN  [children |-> [i \in 1..Len(page) |-> MakeNode(page[i])],
         offset   |-> offset,
         limit    |-> limit,
         total    |-> Len(entries),
         has_more |-> HasMore(offset, limit, Len(entries))]


(***************************************************************************)
(* GET /api/tree                                                           *)
(***************************************************************************)
\* A query-string value: absent, an integer literal, or some other text.
IntArg(v)  == [k |-> "int", v |-> v]
AbsentArg  == [k |-> "absent", v |-> 0]
TextArg    == [k |-> "text", v |-> 0]

\* The "path" value: a relative or an absolute path ("" is RelPath(<<>>)).
RelPath(segs) == [abs |-> FALSE, segs |-> segs]
AbsPath(segs) == [abs |-> TRUE, segs |-> segs]

\* ROOT / rel: an absolute right operand replaces the left one.
JoinRoot(arg) == IF arg.abs THEN arg.segs ELSE ROOT \o arg.segs

DEFAULT_LIMIT == 500

NoListing ==
    [children |-> <<>>, offset |-> 0, limit |-> 0, total |-> 0, has_more |-> FALSE]

TreeResponse(status, error, parent, payload) ==
    [status |-> status, error |-> error, parent |-> parent,
     children |-> payload.children, offset |-> payload.offset,
     limit |-> payload.limit, total |-> payload.total,
     has_more |-> payload.has_more]

\* api_tree(): the response to GET /api/tree?path=..&offset=..&limit=..
\* int() of a value that is no integer literal raises ValueError, which
\* Flask answers with 500.
api_tree(path, offsetArg, limitArg) ==
    IF limitArg.k = "text" \/ offsetArg.k = "text"
    THEN TreeResponse(500, "ValueError", <<>>, NoListing)
    ELSE LET limit  == IF limitArg.k = "absent" THEN DEFAULT_LIMIT ELSE limitArg.v
             offset == IF offsetArg.k = "absent" THEN 0 ELSE offsetArg.v
             base   == IF path.segs # <<>> THEN Resolve(JoinRoot(path)) ELSE ROOT
         IN  IF ~Exists(base) \/ ~IsDir(base) \/ ~is_relative_to(base, ROOT)
             THEN TreeResponse(400, "Invalid path", <<>>, NoListing)
             ELSE TreeResponse(200, "", base, children_of(base, offset, limit))

\* A failure of os.scandir(dir_path) in _children_of (to open the directory
\* or to iterate it): none, PermissionError, or another exception -
\* FileNotFoundError when the directory is gone since api_tree tested it.
ScanFailures == {"none", "PermissionError", "FileNotFoundError"}

\* _children_of when the scan raises PermissionError: entries = [].
children_of_denied(offset, limit) ==
    [children |-> <<>>,
     offset   |-> offset,
     limit    |-> limit,
     total    |-> 0,
     has_more |-> HasMore(offset, limit, 0)]

\* api_tree() when the scan of the directory fails with scan: the request
\* is tested as ever; PermissionError is caught by _children_of, any other
\* exception leaves the view function and Flask answers 500.
api_tree_scan(path, offsetArg, limitArg, scan) ==
    LET plain == api_tree(path, offsetArg, limitArg)
    IN  IF scan = "none" \/ plain.status # 200 THEN plain
        ELSE IF scan = "PermissionError"
        THEN TreeResponse(200, "", plain.parent,
                          children_of_denied(plain.offset, plain.limit))
        ELSE TreeResponse(500, scan, <<>>, NoListing)

(***************************************************************************)
(* Content rendering                                                       *)
(***************************************************************************)
\* MAX_FILE_BYTES and BINARY_SNIFF_BYTES, scaled down to the sizes of the
\* modelled files (1048576 and 4096 in the source).
MAX_FILE_BYTES == 3
BINARY_SNIFF_BYTES == 2

\* EXT_TO_LANG
EXT_TO_LANG ==
    << << << ".", "p", "y" >>, "python" >>,
       << << ".", "j", "s" >>, "javascript" >>,
       << << ".", "t", "s" >>, "typescript" >>,
       << << ".", "j", "s", "x" >>, "jsx" >>,
       << << ".", "t", "s", "x" >>, "tsx" >>,
       << << ".", "j", "s", "o", "n" >>, "json" >>,
       << << ".", "j", "a", "v", "a" >>, "java" >>,
       << << ".", "c" >>, "c" >>,
       << << ".", "c", "p", "p" >>, "cpp" >>,
       << << ".", "c", "c" >>, "cpp" >>,
       << << ".", "h", "p", "p" >>, "cpp" >>,
       << << ".", "c", "s" >>, "csharp" >>,
       << << ".", "g", "o" >>, "go" >>,
       << << ".", "r", "b" >>, "ruby" >>,
       << << ".", "p", "h", "p" >>, "php" >>,
       << << ".", "h", "t", "m", "l" >>, "html" >>,
       << << ".", "c", "s", "s" >>, "css" >>,
       << << ".", "s", "c", "s", "s" >>, "scss" >>,
       << << ".", "s", "h" >>, "bash" >>,
       << << ".", "z", "s", "h" >>, "bash" >>,
       << << ".", "y", "m", "l" >>, "yaml" >>,
       << << ".", "y", "a", "m", "l" >>, "yaml" >>,
       << << ".", "r", "s" >>, "rust" >>,
       << << ".", "s", "w", "i", "f", "t" >>, "swift" >> >>

\* os.path.splitext(name)[1]: from the last dot of the last component, the
\* leading dots of the component not counted.
SplitExt(file_path) ==
    LET seps == {i \in 1..Len(file_path) : file_path[i] = "/"}
        from == IF seps = {} THEN 1 ELSE 1 + CHOOSE i \in seps : \A j \in seps : j <= i
        name == SubSeq(file_path, from, Len(file_path))
        lead == CHOOSE k \in 0..Len(name) :
                    /\ \A i \in 1..k : name[i] = "."
                    /\ k = Len(name) \/ name[k + 1] # "."
        dots == {i \in (lead + 1)..Len(name) : name[i] = "."}
    IN  IF dots = {} THEN <<>>
        ELSE SubSeq(name, CHOOSE i \in dots : \A j \in dots : j <= i, Len(name))

\* detect_language(file_path)
detect_language(rel) ==
    LET ext == Lower(SplitExt(rel))
        hit == {i \in 1..Len(EXT_TO_LANG) : EXT_TO_LANG[i][1] = ext}
    IN  IF hit = {} THEN "" ELSE EXT_TO_LANG[CHOOSE i \in hit : TRUE][2]

\* str(n) for n >= 0
Digit == << "0", "1", "2", "3", "4", "5", "6", "7", "8", "9" >>
RECURSIVE Decimal(_)
Decimal(n) == IF n < 10 THEN << Digit[n + 1] >> ELSE Decimal(n \div 10) \o << Digit[(n % 10) + 1] >>

\* str(path) of an absolute path
PathStr(p) == << "/" >> \o JoinWith(p, << "/" >>)

\* bytes.decode("utf-8", errors="replace"): a byte that is no valid UTF-8
\* ("BAD") becomes U+FFFD ("REPL"); the other bytes of the model are ASCII.
Decode(data) == [i \in 1..Len(data) |-> IF data[i] = "BAD" THEN "REPL" ELSE data[i]]

\* _dynamic_fence(text, lang): the fence, the language tag and the body.
FixedFence(text, lang) ==
    [open |-> 3, lang |-> lang, body |-> text, close |-> 3]
dynamic_fence(text, lang) ==
    LET longest == LongestRun(text, "TICK")
        fence   == Max(3, longest + 1)
    IN  [open |-> fence, lang |-> lang, body |-> text, close |-> fence]

\* An I/O failure of the environment: which call on which file raises OSError.
NoFault == [path |-> <<>>, op |-> "none"]
Fails(fault, p, op) == fault.path = p /\ fault.op = op

\* The text of an OSError for path p.
OSErrorStr(p) == << "[Errno] ", "'" >> \o PathStr(p) \o << "'" >>

\* (mutant) the cap counted as exceeded by a file of exactly the cap
ReadSampledCapInclusive(content, p, fault) ==
    IF Fails(fault, p, "stat")
    THEN [text |-> << "Error: stat failed: " >> \o OSErrorStr(p),
          truncated |-> FALSE, note |-> "error"]
    ELSE IF Fails(fault, p, "open")
    THEN [text |-> << "Error: open failed: " >> \o OSErrorStr(p),
          truncated |-> FALSE, note |-> "error"]
    ELSE LET size == Len(content)
             head == PySlice(content, 0, BINARY_SNIFF_BYTES)
         IN  IF "NUL" \in Range(head)
             THEN [text |-> << "<Binary file omitted>" >>,
                   truncated |-> FALSE, note |-> "binary"]
             ELSE IF Fails(fault, p, "read")
             THEN [text |-> << "Error: read failed: " >> \o OSErrorStr(p),
                   truncated |-> FALSE, note |-> "error"]
             ELSE LET to_read   == Min(size, MAX_FILE_BYTES)
                      data      == PySlice(content, 0, to_read)
                      truncated == size >= MAX_FILE_BYTES
                      text      == Decode(data)
                      notice    == << "<Truncated: " >> \o Decimal(size)
                                   \o << " bytes > " >> \o Decimal(MAX_FILE_BYTES)
                                   \o << " byte preview>" >>
                  IN  [text |-> IF truncated THEN notice \o << "\n" >> \o text ELSE text,
                       truncated |-> truncated, note |-> "none"]

\* (mutant) the whole file sniffed for a NUL byte
ReadSampledSniffAll(content, p, fault) ==
    IF Fails(fault, p, "stat")
    THEN [text |-> << "Error: stat failed: " >> \o OSErrorStr(p),
          truncated |-> FALSE, note |-> "error"]
    ELSE IF Fails(fault, p, "open")
    THEN [text |-> << "Error: open failed: " >> \o OSErrorStr(p),
          truncated |-> FALSE, note |-> "error"]
    ELSE LET size == Len(content)
             head == content
         IN  IF "NUL" \in Range(head)
             THEN [text |-> << "<Binary file omitted>" >>,
                   truncated |-> FALSE, note |-> "binary"]
             ELSE IF Fails(fault, p, "read")
             THEN [text |-> << "Error: read failed: " >> \o OSErrorStr(p),
                   truncated |-> FALSE, note |-> "error"]
             ELSE LET to_read   == Min(size, MAX_FILE_BYTES)
                      data      == PySlice(content, 0, to_read)
                      truncated == size > MAX_FILE_BYTES
                      text      == Decode(data)
                      notice    == << "<Truncated: " >> \o Decimal(size)
                                   \o << " bytes > " >> \o Decimal(MAX_FILE_BYTES)
                                   \o << " byte preview>" >>
                  IN  [text |-> IF truncated THEN notice \o << "\n" >> \o text ELSE text,
                       truncated |-> truncated, note |-> "none"]

\* (mutant) a failure of the bounded read that yields no error note
ReadSampledReadUnhandled(content, p, fault) ==
    IF Fails(fault, p, "stat")
    THEN [text |-> << "Error: stat failed: " >> \o OSErrorStr(p),
          truncated |-> FALSE, note |-> "error"]
    ELSE IF Fails(fault, p, "open")
    THEN [text |-> << "Error: open failed: " >> \o OSErrorStr(p),
          truncated |-> FALSE, note |-> "error"]
    ELSE LET size == Len(content)
             head == PySlice(content, 0, BINARY_SNIFF_BYTES)
         IN  IF "NUL" \in Range(head)
             THEN [text |-> << "<Binary file omitted>" >>,
                   truncated |-> FALSE, note |-> "binary"]
             ELSE IF Fails(fault, p, "read")
             THEN [text |-> <<>>, truncated |-> FALSE, note |-> "none"]
             ELSE LET to_read   == Min(size, MAX_FILE_BYTES)
                      data      == PySlice(content, 0, to_read)
                      truncated == size > MAX_FILE_BYTES
                      text      == Decode(data)
                      notice    == << "<Truncated: " >> \o Decimal(size)
                                   \o << " bytes > " >> \o Decimal(MAX_FILE_BYTES)
                                   \o << " byte preview>" >>
                  IN  [text |-> IF truncated THEN notice \o << "\n" >> \o text ELSE text,
                       truncated |-> truncated, note |-> "none"]

\* _read_text_sampled(p) for a file p that holds content: (text, truncated, note)
ReadSampled(content, p, fault) ==
    IF Fails(fault, p, "stat")
    THEN [text |-> << "Error: stat failed: " >> \o OSErrorStr(p),
          truncated |-> FALSE, note |-> "error"]
    ELSE IF Fails(fault, p, "open")
    THEN [text |-> << "Error: open failed: " >> \o OSErrorStr(p),
          truncated |-> FALSE, note |-> "error"]
    ELSE LET size == Len(content)
             head == PySlice(content, 0, BINARY_SNIFF_BYTES)
         IN  IF "NUL" \in Range(head)
             THEN [text |-> << "<Binary file omitted>" >>,
                   truncated |-> FALSE, note |-> "binary"]
             ELSE IF Fails(fault, p, "read")
             THEN [text |-> << "Error: read failed: " >> \o OSErrorStr(p),
                   truncated |-> FALSE, note |-> "error"]
             ELSE LET to_read   == Min(size, MAX_FILE_BYTES)
                      data      == PySlice(content, 0, to_read)
                      truncated == size > MAX_FILE_BYTES
                      text      == Decode(data)
                      notice    == << "<Truncated: " >> \o Decimal(size)
                                   \o << " bytes > " >> \o Decimal(MAX_FILE_BYTES)
                                   \o << " byte preview>" >>
                  IN  [text |-> IF truncated THEN notice \o << "\n" >> \o text ELSE text,
                       truncated |-> truncated, note |-> "none"]

\* _read_text_sampled(p): (text, truncated, note)
read_text_sampled(p, fault) == ReadSampled(Entry(p).content, p, fault)

(***************************************************************************)
(* POST /api/copy                                                          *)
(***************************************************************************)
\* The process's working directory; ROOT defaults to it.
CWD == ROOT

\* An element of the "files" list: a string naming a path, or a JSON value
\* that is no string (a number, null, an object).
StrItem(path) == [k |-> "str", path |-> path]
OtherItem     == [k |-> "other", path |-> RelPath(<<>>)]

\* Path(raw).resolve(): a relative path is taken from the working directory.
ResolveRaw(path) == Resolve(IF path.abs THEN path.segs ELSE CWD \o path.segs)

\* (mutant) the check of api_copy without the test against ROOT
DroppedNoRootTest(p) == ~Exists(p) \/ ~IsFile(p)

\* The check of api_copy: the resolved path p is dropped.
Dropped(p) == ~is_relative_to(p, ROOT) \/ ~Exists(p) \/ ~IsFile(p)

\* (mutant) the fence always three backticks long
SnippetFixedFence(content, p, fault) ==
    LET rel  == RelPosix(p)
        lang == detect_language(rel)
        r    == ReadSampled(content, p, fault)
        f    == IF r.note = "binary" THEN FixedFence(<< "<Binary file omitted>" >>, "")
                ELSE IF r.note = "error" THEN FixedFence(r.text, "")
                ELSE FixedFence(r.text, lang)
    IN  [path |-> p, heading |-> rel, open |-> f.open, lang |-> f.lang,
         body |-> f.body, close |-> f.close, note |-> r.note,
         truncated |-> r.truncated]

\* One snippet of the document, for a file p that holds content: the
\* heading (rel) and the fenced block.
SnippetOf(content, p, fault) ==
    LET rel  == RelPosix(p)
        lang == detect_language(rel)
        r    == ReadSampled(content, p, fault)
        f    == IF r.note = "binary" THEN FixedFence(<< "<Binary file omitted>" >>, "")
                ELSE IF r.note = "error" THEN FixedFence(r.text, "")
                ELSE dynamic_fence(r.text, lang)
    IN  [path |-> p, heading |-> rel, open |-> f.open, lang |-> f.lang,
         body |-> f.body, close |-> f.close, note |-> r.note,
         truncated |-> r.truncated]

\* One snippet of the document: the heading (rel) and the fenced block.
Snippet(p, fault) == SnippetOf(Entry(p).content, p, fault)

\* (mutant) the loop of api_copy collecting each file once
RECURSIVE CopyPiecesOnce(_, _)
CopyPiecesOnce(items, fault) ==
    IF items = <<>> THEN <<>>
    ELSE LET rest == CopyPiecesOnce(Front(items), fault)
             p    == ResolveRaw(Last(items).path)
         IN  IF Dropped(p) \/ \E i \in 1..Len(rest) : rest[i].path = p THEN rest
             ELSE Append(rest, Snippet(p, fault))

\* The loop of api_copy over a list of strings: md_pieces.
RECURSIVE CopyPieces(_, _)
CopyPieces(items, fault) ==
    IF items = <<>> THEN <<>>
    ELSE LET p == ResolveRaw(Head(items).path)
         IN  (IF Dropped(p) THEN <<>> ELSE << Snippet(p, fault) >>)
             \o CopyPieces(Tail(items), fault)

\* The items the loop reaches: all of them, or those before the first one
\* on which Path(raw) raises.
Reached(items) ==
    LET bad == {i \in 1..Len(items) : items[i].k # "str"}
    IN  IF bad = {} THEN items
        ELSE SubSeq(items, 1, (CHOOSE i \in bad : \A j \in bad : i <= j) - 1)

\* The request body as request.get_json(force=True, silent=True) sees it:
\*   json = "malformed"  no or malformed JSON (None)
\*          "falsy"      a JSON value that is falsy: null, 0, "", [], {}
\*          "truthy"     a truthy JSON value that is no object: [1], "x", 5
\*          "object"     a JSON object; files is its "files" member:
\*                       absent, a list (items) or any other value.
Body(json, files, items) == [json |-> json, files |-> files, items |-> items]

CopyResponse(status, error, pieces) ==
    [status |-> status, error |-> error, pieces |-> pieces]

\* api_copy(): the response to POST /api/copy.  An exception that leaves the
\* view function is answered by Flask with 500.
api_copy(body, fault) ==
    IF body.json = "truthy"
    THEN CopyResponse(500, "AttributeError", <<>>)
    ELSE LET selected == IF body.json = "object" /\ body.files = "list"
                         THEN body.items ELSE <<>>
         IN  IF body.json = "object" /\ body.files = "other"
             THEN CopyResponse(400, "files must be a list", <<>>)
             ELSE IF \E i \in 1..Len(selected) : selected[i].k # "str"
             THEN CopyResponse(500, "TypeError", <<>>)
             ELSE CopyResponse(200, "", CopyPieces(selected, fault))

(***************************************************************************)
(* The page script: constants, the tree provider, the blacklist            *)
(***************************************************************************)
\* F(v), with v evaluated once.
Bind(v, F(_)) == CHOOSE r \in {F(x) : x \in {v}} : TRUE

\* PAGE_SIZE, scaled down to the size of the modelled directories (500 in
\* the source).
PAGE_SIZE == 2

BLACKLIST_NAMES ==
    { << ".", "e", "n", "v" >>,
      << ".", "e", "n", "v", ".", "l", "o", "c", "a", "l" >>,
      << ".", "e", "n", "v", ".", "d", "e", "v", "e", "l", "o", "p", "m", "e", "n", "t" >>,
      << ".", "e", "n", "v", ".", "p", "r", "o", "d", "u", "c", "t", "i", "o", "n" >>,
      << ".", "e", "n", "v", ".", "t", "e", "s", "t" >>,
      << "_", "_", "p", "y", "c", "a", "c", "h", "e", "_", "_" >>,
      << ".", "p", "y", "t", "e", "s", "t", "_", "c", "a", "c", "h", "e" >>,
      << ".", "m", "y", "p", "y", "_", "c", "a", "c", "h", "e" >>,
      << ".", "i", "p", "y", "n", "b", "_", "c", "h", "e", "c", "k", "p", "o", "i", "n", "t", "s" >>,
      << "n", "o", "d", "e", "_", "m", "o", "d", "u", "l", "e", "s" >>,
      << ".", "v", "e", "n", "v" >>,
      << "v", "e", "n", "v" >>,
      << ".", "t", "o", "x" >>,
      << ".", "c", "a", "c", "h", "e" >>,
      << "b", "u", "i", "l", "d" >>,
      << "d", "i", "s", "t" >> }

\* String(fp).split(/[\\/]+/): the pieces between runs of separators (a
\* leading separator yields a leading empty piece).  No modelled name holds
\* a backslash, so "/" is the only separator met.
RECURSIVE SplitSegs(_, _, _)
SplitSegs(s, cur, inRun) ==
    IF s = <<>> THEN << cur >>
    ELSE IF Head(s) = "/"
         THEN IF inRun THEN SplitSegs(Tail(s), cur, TRUE)
              ELSE << cur >> \o SplitSegs(Tail(s), <<>>, TRUE)
         ELSE SplitSegs(Tail(s), Append(cur, Head(s)), FALSE)

\* isBlacklistedPath(fp), fp being the fullPath string of a node
isBlacklistedPath(fp) ==
    /\ fp # <<>>
    /\ \E s \in Range(SplitSegs(PathStr(fp), <<>>, FALSE)) : s \in BLACKLIST_NAMES

\* fetchChildren(fullPath, offset, limit): GET /api/tree; the path sent is
\* the absolute fullPath, or "" for the root.
fetchChildren(fullPath, offset, limit) ==
    api_tree(IF fullPath = <<>> THEN RelPath(<<>>) ELSE AbsPath(fullPath),
             IntArg(offset), IntArg(limit))

\* fetchChildren(d, o, PAGE_SIZE) for each directory d and offset o.
ServedPages == [d \in RootDirs |->
                   [o \in 0..Len(Sorted[d]) |-> fetchChildren(d, o, PAGE_SIZE)]]

\* do { fetch; offset += children.length } while (offset < total): all the
\* children of one directory, page after page.
\* (A page that brings nothing while offset < total would make the script
\* ask for it again without end; the unfolding stops there.)
RECURSIVE FetchAll(_, _, _)
FetchAll(page, d, offset) ==
    Bind(page[d][offset], LAMBDA data :
        Bind(offset + Len(data.children), LAMBDA next :
            data.children \o (IF next < data.total /\ next > offset
                              THEN FetchAll(page, d, next) ELSE <<>>)))

(***************************************************************************)
(* The rendered tree                                                       *)
(***************************************************************************)
\* A rendered row (li) is identified by the directory it was listed in and
\* its name; its checkbox carries dataset.fullPath and dataset.isDir of the
\* node.
RECURSIVE RowsUnder(_, _)
RowsUnder(all, d) ==
    UNION { {Append(d, n.name)}
            \cup (IF n.is_dir THEN RowsUnder(all, n.fullPath) ELSE {})
            : n \in Range(all[d]) }

\* Document order of the rows: a folder's row, then the rows inside it.
RECURSIVE RowOrderUnder(_, _, _)
RowOrderUnder(all, d, i) ==
    IF i > Len(all[d]) THEN <<>>
    ELSE Bind(all[d][i], LAMBDA n :
             << Append(d, n.name) >>
             \o (IF n.is_dir THEN RowOrderUnder(all, n.fullPath, 1) ELSE <<>>)
             \o RowOrderUnder(all, d, i + 1))

\* The tree as the server lists it to the page: the pages of each
\* directory, and what follows from them - the children of each directory,
\* the rows the page can come to render with the node of each, their
\* document order, the fullPaths (the keys checkMap and allowMap can hold)
\* and which of these are blacklisted.
Listing ==
    Bind(ServedPages, LAMBDA page :
    Bind([d \in RootDirs |-> FetchAll(page, d, 0)], LAMBDA all :
    Bind(RowsUnder(all, ROOT), LAMBDA rows :
    Bind([r \in rows |-> CHOOSE n \in Range(all[Front(r)]) : n.name = Last(r)],
         LAMBDA node :
    Bind({node[r].fullPath : r \in rows}, LAMBDA keys :
        [dirs |-> RootDirs, page |-> page, all |-> all, rows |-> rows,
         node |-> node, order |-> RowOrderUnder(all, ROOT, 1), keys |-> keys,
         black |-> [k \in keys |-> isBlacklistedPath(k)]])))))

\* The filesystem does not change while the page is open: a request is
\* answered the same whenever it is made.
VARIABLE listing

Dirs == listing.dirs
Page == listing.page
AllChildren == listing.all
Rows == listing.rows
NodeOfRow == listing.node
RowOrder == listing.order
Keys == listing.keys
Blacklisted == listing.black

RowIsDir(r) == NodeOfRow[r].is_dir
RowFullPath(r) == NodeOfRow[r].fullPath

\* A checkbox: not rendered, or unchecked, checked, or unchecked and
\* indeterminate.
BoxStates == {"none", "off", "on", "mixed"}
BoxOf(checked) == IF checked THEN "on" ELSE "off"

\* The checkboxes updateParentFolders counts for the list inside folder
\* row p: the file checkboxes of its rows, and the checkbox of every folder
\* header anywhere below it (":scope > li .folder-header > input").
DirectBoxes(d, p) ==
    {x \in Rows : /\ d[x] # "none"
                  /\ x # p
                  /\ IsPrefix(p, x)
                  /\ (RowIsDir(x) \/ Front(x) = p)}

\* updateParentFolders(childLi)
TriState(checkedCount, length) ==
    IF checkedCount = 0 THEN "off"
    ELSE IF checkedCount = length THEN "on"
    ELSE "mixed"

RECURSIVE updateParentFolders(_, _)
updateParentFolders(d, childLi) ==
    Bind(d, LAMBDA d0 : Bind(Front(childLi), LAMBDA p :
        IF p \notin Rows THEN d0
        ELSE Bind(DirectBoxes(d0, p), LAMBDA direct :
                 updateParentFolders(
                     [d0 EXCEPT ![p] =
                         TriState(Cardinality({x \in direct : d0[x] = "on"}),
                                  Cardinality(direct))],
                     p))))

\* document.querySelectorAll('li').forEach(li => updateParentFolders(li))
RECURSIVE UpdateAllFrom(_, _)
UpdateAllFrom(d, i) ==
    IF i > Len(RowOrder) THEN d
    ELSE Bind(IF d[RowOrder[i]] = "none" THEN d
              ELSE updateParentFolders(d, RowOrder[i]),
              LAMBDA d1 : UpdateAllFrom(d1, i + 1))

UpdateAll(d) == Bind(d, LAMBDA d0 : UpdateAllFrom(d0, 1))

\* toggleChildren(folderDiv, checked): every checkbox inside the folder,
\* its own included.
toggleChildren(d, folder, checked) ==
    [x \in Rows |-> IF d[x] # "none" /\ IsPrefix(folder, x)
                    THEN BoxOf(checked) ELSE d[x]]

(***************************************************************************)
(* The page script: selection                                              *)
(***************************************************************************)
\* checkMap maps a fullPath to true, false or 'dir', or holds no entry for
\* it; allowMap maps it to true or holds no entry.
NoMap == [k \in Keys |-> "absent"]
NoAllow == [k \in Keys |-> FALSE]

\* (mutant) a check that asks again although an override was granted
shouldAllowSelectionAsksAgain(allow, fp, confirm) ==
    IF ~Blacklisted[fp] THEN [ret |-> TRUE, allowMap |-> allow]
    ELSE IF confirm THEN [ret |-> TRUE, allowMap |-> [allow EXCEPT ![fp] = TRUE]]
    ELSE [ret |-> FALSE, allowMap |-> allow]

\* (mutant) a check that lets every selection pass without asking
shouldAllowSelectionNoPrompt(allow, fp, confirm) == [ret |-> TRUE, allowMap |-> allow]

\* shouldAllowSelection(fp): its result and the allowMap it leaves, the
\* user answering the confirmation prompt (if it comes to one) with confirm.
shouldAllowSelection(allow, fp, confirm) ==
    IF ~Blacklisted[fp] THEN [ret |-> TRUE, allowMap |-> allow]
    ELSE IF allow[fp] THEN [ret |-> TRUE, allowMap |-> allow]
    ELSE IF confirm THEN [ret |-> TRUE, allowMap |-> [allow EXCEPT ![fp] = TRUE]]
    ELSE [ret |-> FALSE, allowMap |-> allow]

\* The walks' shouldDescendDir: (dirPath) => !isBlacklistedPath(dirPath) || allowMap[dirPath]
shouldDescend(allow, dirPath) == ~Blacklisted[dirPath] \/ allow[dirPath]

\* (mutant) a selection that leaves explicit exclusions alone
ApplySelectionSticky(cm, allow, dirs, files, checked) ==
    LET afterDirs == [k \in Keys |->
            IF k \notin dirs THEN cm[k]
            ELSE IF ~checked THEN "false"
            ELSE IF Blacklisted[k] /\ ~allow[k] THEN cm[k]
            ELSE "dir"]
    IN  [k \in Keys |->
            IF k \notin files THEN afterDirs[k]
            ELSE IF ~checked THEN "false"
            ELSE IF Blacklisted[k] /\ ~allow[k] THEN afterDirs[k]
            ELSE IF afterDirs[k] = "false" THEN "false"
            ELSE "true"]

\* setFolderSelectionRecursive, after its walk: the two loops over the
\* directories and the files collected.
ApplySelection(cm, allow, dirs, files, checked) ==
    LET afterDirs == [k \in Keys |->
            IF k \notin dirs THEN cm[k]
            ELSE IF ~checked THEN "false"
            ELSE IF Blacklisted[k] /\ ~allow[k] THEN cm[k]
            ELSE "dir"]
    IN  [k \in Keys |->
            IF k \notin files THEN afterDirs[k]
            ELSE IF ~checked THEN "false"
            ELSE IF Blacklisted[k] /\ ~allow[k] THEN afterDirs[k]
            ELSE "true"]

\* rebuildCheckMapFromDOM(): a fresh map, written in document order.
RECURSIVE RebuildFrom(_, _, _, _)
RebuildFrom(cm, d, allow, i) ==
    IF i > Len(RowOrder) THEN cm
    ELSE LET r  == RowOrder[i]
             fp == RowFullPath(r)
         IN  IF d[r] = "none" \/ (Blacklisted[fp] /\ ~allow[fp] /\ d[r] # "on")
             THEN RebuildFrom(cm, d, allow, i + 1)
             ELSE Bind([cm EXCEPT ![fp] = IF d[r] # "on" THEN "false"
                                          ELSE IF RowIsDir(r) THEN "dir" ELSE "true"],
                       LAMBDA cm1 : RebuildFrom(cm1, d, allow, i + 1))

\* (mutant) a rebuild that records every rendered checkbox, blacklisted or not
rebuildCheckMapRecordAll(d, allow) == RebuildFrom(NoMap, d, [k \in Keys |-> TRUE], 1)

rebuildCheckMapFromDOM(d, allow) == RebuildFrom(NoMap, d, allow, 1)

\* syncDomFromCheckMap()
syncDomFromCheckMap(d, cm) ==
    Bind(d, LAMBDA d0 : UpdateAll([r \in Rows |->
        LET val == cm[RowFullPath(r)]
        IN  IF d0[r] = "none" THEN "none"
            ELSE IF RowIsDir(r)
            THEN (IF val = "dir" THEN "on" ELSE IF val = "false" THEN "off" ELSE d0[r])
            ELSE (IF val = "true" THEN "on" ELSE IF val = "false" THEN "off" ELSE d0[r])]))

\* renderChildrenInto(ul, nodeList): the rows already in the document get
\* their parents recomputed; the new rows, attached afterwards, show
\* !!checkMap[fullPath].
renderChildrenInto(d, cm, dir, nodeList) ==
    Bind(UpdateAll(d), LAMBDA old :
        [r \in Rows |->
            IF r \in {Append(dir, nodeList[i].name) : i \in 1..Len(nodeList)}
            THEN BoxOf(cm[RowFullPath(r)] \in {"true", "dir"})
            ELSE old[r]])

(***************************************************************************)
(* The page script: updatePreview                                          *)
(***************************************************************************)
Excluded(cm) == {k \in Keys : cm[k] = "false"}
SelectedDirs(cm) == {k \in Keys : cm[k] = "dir"}

\* The first loop of updatePreview: the explicitly checked files.
ExplicitFiles(cm, allow) ==
    {k \in Keys : /\ cm[k] = "true"
                  /\ k \notin Excluded(cm)
                  /\ (~Blacklisted[k] \/ allow[k])}

\* collectAllFilesUnder(dir): the files a walk from dir visits, the walk
\* reading allow when it decides whether to descend.
RECURSIVE collectAllFilesUnder(_, _)
collectAllFilesUnder(dir, allow) ==
    LET kids == Range(AllChildren[dir])
    IN  {n.fullPath : n \in {m \in kids : ~m.is_dir}}
        \cup UNION { collectAllFilesUnder(n.fullPath, allow)
                     : n \in {m \in kids : m.is_dir /\ shouldDescend(allow, m.fullPath)} }

\* (mutant) a walked file is kept whatever the blacklist says
KeepWalkedAnyway(cm, allow, f) == f \notin Excluded(cm)

\* The filter of the second loop: a walked file is kept unless it is
\* excluded, or blacklisted without an override of its own.
KeepWalked(cm, allow, f) ==
    /\ f \notin Excluded(cm)
    /\ ~(Blacklisted[f] /\ ~allow[f])

WalkedFiles(cm, allow) ==
    UNION { {f \in collectAllFilesUnder(dir, allow) : KeepWalked(cm, allow, f)}
            : dir \in SelectedDirs(cm) }

\* (mutant) no removal of the exclusions
checkedFilesNoExclusion(cm, explicit, allow) ==
    explicit \cup UNION { collectAllFilesUnder(dir, allow) : dir \in SelectedDirs(cm) }

\* checkedFiles: the files updatePreview posts to /api/copy.
checkedFiles(cm, explicit, allow) ==
    (explicit \cup WalkedFiles(cm, allow)) \ Excluded(cm)

(***************************************************************************)
(* State                                                                   *)
(***************************************************************************)
VARIABLES
    treeReq,    \* the last GET /api/tree request
    treeResp,   \* and its response
    pager       \* a client that reads one directory page by page

treeVars == << treeReq, treeResp, pager >>

VARIABLES
    copyReq,    \* the last POST /api/copy request, and the I/O failure it meets
    copyResp,   \* and its response
    copyReads   \* the files _read_text_sampled was called on to serve it

copyVars == << copyReq, copyResp, copyReads >>

VARIABLES
    checkMap,   \* the script's checkMap
    allowMap,   \* the script's allowMap
    dom,        \* the checkbox of each row: BoxStates
    treeCache,  \* the script's treeCache, and whether a "Load more" row is shown
    expandMap,  \* the script's expandMap
    tasks,      \* the handlers waiting for a response
    sent,       \* the files of the last updatePreview that came to its end
    clicks,     \* the clicks made so far
    event       \* what the last step completed (history)

VARIABLES
    ignCall,    \* the last call of _ignored: its arguments and its result
    rendered    \* the last file rendered for a snapshot: the file and its snippet

fnVars == << ignCall, rendered >>

\* The tree view in detail: the lists of each folder, the cache with the
\* children it holds, and the requests of the arrows and of the "Load more"
\* buttons while they are under way.
VARIABLES
    viewCache,  \* treeCache: fullPath -> { children, total, offset }
    viewExpand, \* expandMap
    viewLists,  \* the <ul> lists made for each folder, in the order they were made
    viewShown,  \* content.style.display !== "none", of each folder in the document
    doc,        \* which tree is in the document: the one of the gen-th refresh
    fetches,    \* the handlers waiting for a response of /api/tree
    viewClicks  \* the clicks made so far

viewVars == << viewCache, viewExpand, viewLists, viewShown, doc, fetches, viewClicks >>

\* The user of the page: the clicks they make at most, and the handlers
\* they leave waiting for a response at one time at most.
VARIABLE user

userVars == << user >>

selVars == << listing, checkMap, allowMap, dom, treeCache, expandMap, tasks, sent,
             clicks, event >>
vars == << treeReq, treeResp, pager, copyReq, copyResp, copyReads, ignCall, rendered,
           listing, checkMap, allowMap, dom, treeCache, expandMap, tasks, sent,
           clicks, event,
           viewCache, viewExpand, viewLists, viewShown, doc, fetches, viewClicks,
           user >>

\* What the actions of one part leave alone.
notTreeVars == << copyVars, fnVars, selVars, viewVars, userVars >>
notCopyVars == << treeVars, fnVars, selVars, viewVars, userVars >>
notSelVars == << treeVars, copyVars, fnVars, viewVars, userVars >>
notFnVars == << treeVars, copyVars, selVars, viewVars, userVars >>
notViewVars == << treeVars, copyVars, fnVars, selVars, userVars >>

\* Bounds of the requests the model issues.
MaxLimit == 3
MaxOffset == 3

TreePathArgs ==
    { RelPath(<<>>), RelPath(<< n_a >>), RelPath(<< n_C >>),
      RelPath(<< n_a, n_git >>), RelPath(<< n_a, n_btxt >>),
      RelPath(<< n_gone >>), RelPath(<< DotDot, DotDot, n_etc >>),
      RelPath(<< n_C, n_out >>), RelPath(<< n_C, n_up >>),
      AbsPath(<< n_etc >>), AbsPath(ROOT \o << n_C, n_build >>),
      AbsPath(ROOT \o << n_git >>) }

TreeIntArgs == {AbsentArg, TextArg} \cup {IntArg(v) : v \in -1..MaxOffset}

NoRequest == [path |-> RelPath(<<>>), offset |-> AbsentArg, limit |-> AbsentArg,
              scan |-> "none"]
NoPager == [dir |-> <<>>, limit |-> 0, offset |-> 0, acc |-> <<>>,
            done |-> FALSE, active |-> FALSE]

\* No request is in flight and no response is held.
Idle == TreeResponse(0, "idle", <<>>, NoListing)
\* No response yet: the request is in flight.
Pending == TreeResponse(0, "pending", <<>>, NoListing)

\* Any client sends any request, and the scan it leads to fails or not ...
TreeSend ==
    /\ ~pager.active
    /\ treeResp = Idle
    /\ \E path \in TreePathArgs, off \in TreeIntArgs, lim \in TreeIntArgs,
          scan \in ScanFailures :
        treeReq' = [path |-> path, offset |-> off, limit |-> lim, scan |-> scan]
    /\ treeResp' = Pending
    /\ UNCHANGED pager
    /\ UNCHANGED notTreeVars

\* ... the server answers it ...
TreeServe ==
    /\ treeResp = Pending
    /\ treeResp' = api_tree_scan(treeReq.path, treeReq.offset, treeReq.limit, treeReq.scan)
    /\ UNCHANGED << treeReq, pager >>
    /\ UNCHANGED notTreeVars

\* ... and the client takes the response.
TreeDone ==
    /\ ~pager.active
    /\ treeResp \notin {Idle, Pending}
    /\ treeReq' = NoRequest
    /\ treeResp' = Idle
    /\ UNCHANGED pager
    /\ UNCHANGED notTreeVars

\* A client starts to read directory D with page size N ...
PagerStart ==
    /\ treeResp = Idle
    /\ ~pager.active \/ pager.done
    /\ \E D \in RootDirs, N \in 1..MaxLimit :
        pager' = [dir |-> D, limit |-> N, offset |-> 0, acc |-> <<>>,
                  done |-> FALSE, active |-> TRUE]
    /\ UNCHANGED << treeReq, treeResp >>
    /\ UNCHANGED notTreeVars

\* ... and asks for listChildren(D, offset, N) at offsets 0, N, 2N, ... until
\* has_more is false.
PagerStep ==
    /\ pager.active /\ ~pager.done
    /\ treeResp # Pending
    /\ LET req  == [path |-> AbsPath(pager.dir), offset |-> IntArg(pager.offset),
                    limit |-> IntArg(pager.limit), scan |-> "none"]
           resp == api_tree(req.path, req.offset, req.limit)
       IN  /\ treeReq' = req
           /\ treeResp' = resp
           /\ pager' = [pager EXCEPT !.acc = @ \o resp.children,
                                     !.offset = @ + pager.limit,
                                     !.done = ~resp.has_more]
    /\ UNCHANGED notTreeVars

\* The reader is done with the listing.
PagerEnd ==
    /\ pager.active /\ pager.done
    /\ pager' = NoPager
    /\ treeReq' = NoRequest
    /\ treeResp' = Idle
    /\ UNCHANGED notTreeVars

TreeNext == TreeSend \/ TreeServe \/ TreeDone \/ PagerStart \/ PagerStep \/ PagerEnd

(***************************************************************************)
(* POST /api/copy: requests                                                *)
(***************************************************************************)
MaxFiles == 3

CopyItems ==
    { StrItem(AbsPath(ROOT \o << n_a, n_btxt >>)),
      StrItem(AbsPath(ROOT \o << n_C, n_env >>)),
      StrItem(AbsPath(ROOT \o << n_C, n_build, n_xjs >>)),
      StrItem(AbsPath(ROOT \o << n_C, n_out >>)),
      StrItem(AbsPath(ROOT \o << n_a >>)),
      StrItem(AbsPath(ROOT \o << n_gone >>)),
      StrItem(RelPath(<< n_a, n_btxt >>)),
      OtherItem }

ItemLists == UNION {[1..n -> CopyItems] : n \in 0..MaxFiles}

CopyBodies ==
    { Body("malformed", "absent", <<>>), Body("falsy", "absent", <<>>),
      Body("truthy", "absent", <<>>), Body("object", "absent", <<>>),
      Body("object", "other", <<>>) }
    \cup {Body("object", "list", items) : items \in ItemLists}

CopyFaults ==
    {NoFault} \cup {[path |-> ROOT \o << n_a, n_btxt >>, op |-> op] :
                        op \in {"stat", "open", "read"}}

NoCopyRequest == [body |-> Body("malformed", "absent", <<>>), fault |-> NoFault]
CopyIdle == CopyResponse(0, "idle", <<>>)
CopyPending == CopyResponse(0, "pending", <<>>)

\* Any client posts any body ...
CopySend ==
    /\ copyResp = CopyIdle
    /\ \E body \in CopyBodies, fault \in CopyFaults :
        copyReq' = [body |-> body, fault |-> fault]
    /\ copyResp' = CopyPending
    /\ copyReads' = {}
    /\ UNCHANGED notCopyVars

\* ... the server answers it ...
CopyServe ==
    /\ copyResp = CopyPending
    /\ copyResp' = api_copy(copyReq.body, copyReq.fault)
    /\ copyReads' =
          IF copyReq.body.json = "object" /\ copyReq.body.files = "list"
          THEN LET pieces == CopyPieces(Reached(copyReq.body.items), copyReq.fault)
               IN  {pieces[i].path : i \in 1..Len(pieces)}
          ELSE {}
    /\ UNCHANGED copyReq
    /\ UNCHANGED notCopyVars

\* ... and the client takes the response.
CopyDone ==
    /\ copyResp \notin {CopyIdle, CopyPending}
    /\ copyReq' = NoCopyRequest
    /\ copyResp' = CopyIdle
    /\ copyReads' = {}
    /\ UNCHANGED notCopyVars

CopyNext == CopySend \/ CopyServe \/ CopyDone

(***************************************************************************)
(* The ignore matcher: calls                                               *)
(***************************************************************************)
\* The names a relative path is made of, and the relative paths (posix) of
\* one or two names.
IgnoreNames ==
    { n_build, n_git, n_a, n_env, n_tpyc, n_xjs, n_out,
      << "e", "n", "v" >>, << "d", "i", "s", "t" >>,
      << ".", "D", "S", "_", "S", "t", "o", "r", "e" >> }

IgnoreRelPaths ==
    IgnoreNames \cup {x \o << "/" >> \o y : x \in IgnoreNames, y \in IgnoreNames}

NoIgnCall == [rel |-> <<>>, is_dir |-> FALSE, result |-> FALSE, called |-> FALSE]

\* _ignored(rel, is_dir) is called on any relative path, as a directory or
\* as a file.
IgnoreCall ==
    /\ \E rel \in IgnoreRelPaths, is_dir \in BOOLEAN :
          ignCall' = [rel |-> rel, is_dir |-> is_dir,
                      result |-> ignored(rel, is_dir), called |-> TRUE]
    /\ UNCHANGED rendered
    /\ UNCHANGED notFnVars

IgnoreNext == IgnoreCall

(***************************************************************************)
(* The renderer: files of any content                                      *)
(***************************************************************************)
\* The longest file rendered.
MaxBytes == 4

\* The bytes a file is made of: a letter, NUL, a backtick, and a byte that
\* is no valid UTF-8.
Bytes == {"x", "NUL", "TICK", "BAD"}
Contents == UNION {[1..n -> Bytes] : n \in 0..MaxBytes}

\* The files rendered (extensions .txt, .js, .pyc and .md, the last one with
\* backticks in its name) and the I/O failure the rendering meets.
RenderPaths ==
    { ROOT \o << n_a, n_btxt >>, ROOT \o << n_C, n_build, n_xjs >>,
      ROOT \o << n_C, n_tpyc >>, ROOT \o << n_a, n_ticks >> }
RenderFaults(p) == {NoFault} \cup {[path |-> p, op |-> op] : op \in {"stat", "open", "read"}}

NoRendered ==
    [done |-> FALSE, path |-> <<>>, content |-> <<>>, fault |-> NoFault,
     r |-> [text |-> <<>>, truncated |-> FALSE, note |-> "none"],
     piece |-> [path |-> <<>>, heading |-> <<>>, open |-> 0, lang |-> "",
                body |-> <<>>, close |-> 0, note |-> "none", truncated |-> FALSE]]

\* api_copy renders one valid file: _read_text_sampled and the fenced block.
Render ==
    /\ ~rendered.done
    /\ \E p \in RenderPaths, content \in Contents :
        \E fault \in RenderFaults(p) :
          rendered' = [done |-> TRUE, path |-> p, content |-> content, fault |-> fault,
                       r |-> ReadSampled(content, p, fault),
                       piece |-> SnippetOf(content, p, fault)]
    /\ UNCHANGED ignCall
    /\ UNCHANGED notFnVars

\* The snippet is appended to the document; the loop goes on.
RenderTaken ==
    /\ rendered.done
    /\ rendered' = NoRendered
    /\ UNCHANGED ignCall
    /\ UNCHANGED notFnVars

RenderNext == Render \/ RenderTaken

(***************************************************************************)
(* The page: handlers                                                      *)
(***************************************************************************)
\* Bounds: the clicks on checkboxes and on Select All / Unselect All, and
\* the handlers that may be waiting for a response at one time.
MaxClicks == 3
MaxTasks == 1

\* Bounds of the user who clicks without waiting for the responses.
MaxRaceClicks == 2
MaxRaceTasks == 2

\* Bounds of the user under whom the walks are followed to their end.
MaxWalkClicks == 2
MaxWalkTasks == 1

NoCache == [has |-> FALSE, offset |-> 0, total |-> 0, more |-> FALSE]
NoEvent ==
    [op |-> "none", root |-> <<>>, checked |-> FALSE, pre |-> NoMap,
     click |-> 0, snap |-> NoMap, walkDone |-> FALSE, previewDone |-> FALSE,
     asked |-> <<>>, seen |-> <<>>, late |-> <<>>]

\* A handler waiting for a response: in its walk (fetchAllChildrenBfs), or
\* in updatePreview.  click is the number of the click that started it.
\* asked and seen are history: the pages its walk has received (directory
\* and offset) and the children the walk has handed to its visitor (the
\* directory and the name), in order; late are the clicks made while its
\* walk was under way.
Handler(op, root, checked, pre) ==
    [op |-> op, root |-> root, checked |-> checked, pre |-> pre,
     click |-> clicks + 1,
     phase |-> "walk", queue |-> <<>>, cur |-> root, offset |-> 0,
     files |-> {}, dirs |-> {},
     snap |-> NoMap, explicit |-> {}, allow0 |-> NoAllow,
     asked |-> <<>>, seen |-> <<>>, late |-> <<>>]

EventOf(t, snap, walkDone, previewDone) ==
    [op |-> t.op, root |-> t.root, checked |-> t.checked, pre |-> t.pre,
     click |-> t.click, snap |-> snap, walkDone |-> walkDone, previewDone |-> previewDone,
     asked |-> t.asked, seen |-> t.seen, late |-> t.late]

RemoveAt(s, i) == SubSeq(s, 1, i - 1) \o SubSeq(s, i + 1, Len(s))

\* A click is made: the walks under way have it in their history.
Noted(ts, op, root, checked) ==
    [i \in 1..Len(ts) |->
        IF ts[i].phase = "walk"
        THEN [ts[i] EXCEPT !.late = Append(@, [op |-> op, root |-> root,
                                               checked |-> checked])]
        ELSE ts[i]]

\* updatePreview() up to its first await: the exclusions, the explicit
\* files and the selected directories are read off checkMap at once; with
\* no selected directory the request goes out at once as well.  rest are
\* the other handlers, t the one that calls updatePreview.
updatePreview(rest, t, cm, allow, walkDone) ==
    IF SelectedDirs(cm) = {}
    THEN /\ tasks' = rest
         /\ sent' = checkedFiles(cm, ExplicitFiles(cm, allow), allow)
         /\ event' = EventOf(t, cm, walkDone, TRUE)
    ELSE /\ tasks' = Append(rest, [t EXCEPT !.phase = "preview", !.snap = cm,
                                            !.explicit = ExplicitFiles(cm, allow),
                                            !.allow0 = allow])
         /\ sent' = sent
         /\ event' = IF walkDone THEN EventOf(t, cm, TRUE, FALSE) ELSE NoEvent

CanClick == clicks < user.clicks /\ Len(tasks) < user.tasks

\* cb.onchange of a file row; the browser has toggled the box.
FileToggle(r, confirm) ==
    /\ CanClick
    /\ dom[r] # "none" /\ ~RowIsDir(r)
    /\ clicks' = clicks + 1
    /\ LET fp      == RowFullPath(r)
           checked == dom[r] # "on"
           sa      == shouldAllowSelection(allowMap, fp, confirm)
       IN  IF checked /\ ~sa.ret
           THEN /\ dom' = [dom EXCEPT ![r] = "off"]
                /\ event' = NoEvent
                /\ UNCHANGED << checkMap, allowMap, tasks, sent >>
           ELSE /\ allowMap' = IF checked THEN sa.allowMap ELSE allowMap
                /\ checkMap' = [checkMap EXCEPT ![fp] = IF checked THEN "true" ELSE "false"]
                /\ dom' = updateParentFolders([dom EXCEPT ![r] = BoxOf(checked)], r)
                /\ updatePreview(Noted(tasks, "file", fp, checked),
                                 Handler("file", fp, checked, checkMap),
                                 checkMap', allowMap', FALSE)
    /\ UNCHANGED << listing, expandMap, treeCache >>
    /\ UNCHANGED notSelVars

\* cb.onchange of a folder row, up to the first request of its walk.
FolderToggle(r, confirm) ==
    /\ CanClick
    /\ dom[r] # "none" /\ RowIsDir(r)
    /\ clicks' = clicks + 1
    /\ LET fp      == RowFullPath(r)
           checked == dom[r] # "on"
           sa      == shouldAllowSelection(allowMap, fp, confirm)
       IN  IF checked /\ ~sa.ret
           THEN /\ dom' = [dom EXCEPT ![r] = "off"]
                /\ UNCHANGED << checkMap, allowMap, tasks >>
           ELSE /\ allowMap' = IF checked THEN sa.allowMap ELSE allowMap
                /\ dom' = updateParentFolders(
                              toggleChildren([dom EXCEPT ![r] = BoxOf(checked)], r, checked), r)
                /\ checkMap' = [checkMap EXCEPT ![fp] = IF checked THEN "dir" ELSE "false"]
                /\ tasks' = Append(Noted(tasks, "toggle", fp, checked),
                                   Handler("toggle", fp, checked, checkMap))
    /\ event' = NoEvent
    /\ UNCHANGED << listing, expandMap, treeCache, sent >>
    /\ UNCHANGED notSelVars

\* selectAllBtn, up to the first request of its walk.
SelectAll ==
    /\ CanClick
    /\ clicks' = clicks + 1
    /\ tasks' = Append(Noted(tasks, "selectAll", ROOT, TRUE),
                       Handler("selectAll", ROOT, TRUE, checkMap))
    /\ event' = NoEvent
    /\ UNCHANGED << listing, expandMap, checkMap, allowMap, dom, treeCache, sent >>
    /\ UNCHANGED notSelVars

\* unselectAllBtn
UnselectAll ==
    /\ CanClick
    /\ clicks' = clicks + 1
    /\ dom' = [r \in Rows |-> IF dom[r] = "on" THEN "off" ELSE dom[r]]
    /\ checkMap' = rebuildCheckMapFromDOM(dom', allowMap)
    /\ updatePreview(Noted(tasks, "unselectAll", ROOT, FALSE),
                     Handler("unselectAll", ROOT, FALSE, checkMap),
                     checkMap', allowMap, FALSE)
    /\ UNCHANGED << listing, expandMap, allowMap, treeCache >>
    /\ UNCHANGED notSelVars

\* (mutant) a walk that reads the first page of each directory only
MorePagesFirstOnly(offset, total) == FALSE

\* fetchAllChildrenBfs: whether the walk asks for another page of the
\* directory it is in (do ... while (offset < total)).
MorePages(offset, total) == offset < total

\* One page of a walk arrives: fetchAllChildrenBfs visits its children and
\* asks for the next page; the page that ends the walk also runs what the
\* handler does after it, up to the next await.
WalkStep(i) ==
    /\ i \in 1..Len(tasks)
    /\ tasks[i].phase = "walk"
    /\ LET t      == tasks[i]
           data   == Page[t.cur][t.offset]
           kids   == data.children
           offset == t.offset + Len(kids)
           dirs   == {kids[j].fullPath : j \in {j \in 1..Len(kids) : kids[j].is_dir}}
           files  == {kids[j].fullPath : j \in {j \in 1..Len(kids) : ~kids[j].is_dir}}
           down   == SelectSeq([j \in 1..Len(kids) |-> kids[j]],
                               LAMBDA n : n.is_dir /\ shouldDescend(allowMap, n.fullPath))
           queue  == t.queue \o [j \in 1..Len(down) |-> down[j].fullPath]
           allowed(k) == ~Blacklisted[k] \/ allowMap[k]
           \* the visitor: collectAllUnder collects; Select All marks the
           \* directories at once and collects the files it may select
           cm1    == IF t.op = "selectAll"
                     THEN [k \in Keys |-> IF k \in dirs /\ allowed(k) THEN "dir"
                                          ELSE checkMap[k]]
                     ELSE checkMap
           t0     == [t EXCEPT !.asked = Append(@, << t.cur, t.offset >>),
                               !.seen = @ \o [j \in 1..Len(kids) |->
                                                 Append(t.cur, kids[j].name)]]
           t1     == IF t.op = "selectAll"
                     THEN [t0 EXCEPT !.files = @ \cup {f \in files : allowed(f)}]
                     ELSE [t0 EXCEPT !.files = @ \cup files, !.dirs = @ \cup dirs]
           rest   == RemoveAt(tasks, i)
       IN  IF data.status # 200
           THEN \* data.children is undefined: the handler dies of a TypeError
                /\ tasks' = rest
                /\ event' = NoEvent
                /\ UNCHANGED << checkMap, dom, sent >>
           ELSE IF MorePages(offset, data.total)
           THEN /\ tasks' = [tasks EXCEPT ![i] =
                        [t1 EXCEPT !.offset = offset, !.queue = queue]]
                /\ checkMap' = cm1
                /\ event' = NoEvent
                /\ UNCHANGED << dom, sent >>
           ELSE IF queue # <<>>
           THEN /\ tasks' = [tasks EXCEPT ![i] =
                        [t1 EXCEPT !.cur = Head(queue), !.queue = Tail(queue),
                                   !.offset = 0]]
                /\ checkMap' = cm1
                /\ event' = NoEvent
                /\ UNCHANGED << dom, sent >>
           ELSE IF t.op = "selectAll"
           THEN /\ checkMap' = [k \in Keys |-> IF k \in t1.files THEN "true" ELSE cm1[k]]
                /\ dom' = syncDomFromCheckMap(dom, checkMap')
                /\ updatePreview(rest, t1, checkMap', allowMap, TRUE)
           ELSE /\ checkMap' = ApplySelection(cm1, allowMap, t1.dirs, t1.files, t.checked)
                /\ dom' = dom
                /\ updatePreview(rest, t1, checkMap', allowMap, TRUE)
    /\ UNCHANGED << listing, expandMap, allowMap, treeCache, clicks >>
    /\ UNCHANGED notSelVars

\* The walks of updatePreview end and the request goes out.  Each entry of
\* allowMap the walks read, they read at some moment since updatePreview
\* began: allow is what they saw.
PreviewDone(i) ==
    /\ i \in 1..Len(tasks)
    /\ tasks[i].phase = "preview"
    /\ LET t == tasks[i]
       IN  \E late \in SUBSET {k \in Keys : allowMap[k] /\ ~t.allow0[k]} :
              LET allow == [k \in Keys |-> t.allow0[k] \/ k \in late]
              IN  /\ sent' = checkedFiles(t.snap, t.explicit, allow)
                  /\ event' = EventOf(t, t.snap, FALSE, TRUE)
    /\ tasks' = RemoveAt(tasks, i)
    /\ UNCHANGED << listing, expandMap, checkMap, allowMap, dom, treeCache, clicks >>
    /\ UNCHANGED notSelVars

\* arrow.onclick on a folder row not yet loaded: its first page is fetched
\* and rendered.
Expand(r) ==
    /\ dom[r] # "none" /\ RowIsDir(r)
    /\ ~treeCache[RowFullPath(r)].has
    /\ LET fp   == RowFullPath(r)
           data == Page[fp][0]
       IN  /\ dom' = renderChildrenInto(dom, checkMap, fp, data.children)
           /\ treeCache' = [treeCache EXCEPT ![fp] =
                  [has |-> TRUE, offset |-> Len(data.children),
                   total |-> data.total, more |-> data.has_more]]
    /\ expandMap' = [expandMap EXCEPT ![RowFullPath(r)] = TRUE]
    /\ event' = NoEvent
    /\ UNCHANGED << listing, checkMap, allowMap, tasks, sent, clicks >>
    /\ UNCHANGED notSelVars

\* The "Load more" button of a folder: the next page is fetched and
\* rendered before the button's row.
LoadMore(fp) ==
    /\ treeCache[fp].has /\ treeCache[fp].more
    /\ LET nextOffset == treeCache[fp].offset
           data       == Page[fp][nextOffset]
       IN  /\ dom' = renderChildrenInto(dom, checkMap, fp, data.children)
           /\ treeCache' = [treeCache EXCEPT ![fp] =
                  [has |-> TRUE, offset |-> nextOffset + Len(data.children),
                   total |-> data.total, more |-> data.has_more]]
    /\ event' = NoEvent
    /\ UNCHANGED << listing, expandMap, checkMap, allowMap, tasks, sent, clicks >>
    /\ UNCHANGED notSelVars

\* renderRoot() with the folders of expandMap open: the rows it renders,
\* the first page of the root and of every open folder it comes to.
RECURSIVE RenderedUnder(_, _)
RenderedUnder(exp, d) ==
    LET kids == Page[d][0].children
    IN  UNION {{Append(d, kids[i].name)}
               \cup (IF kids[i].is_dir /\ exp[kids[i].fullPath]
                     THEN RenderedUnder(exp, kids[i].fullPath) ELSE {}) :
               i \in 1..Len(kids)}

CacheOfFirstPage(d) ==
    [has |-> TRUE, offset |-> Len(Page[d][0].children), total |-> Page[d][0].total,
     more |-> Page[d][0].has_more]

\* refreshBtn, up to the first request of renderRoot: the cache is cleared
\* and the tree is taken out of the document.
RefreshStart ==
    /\ CanClick
    /\ clicks' = clicks + 1
    /\ treeCache' = [d \in Dirs |-> NoCache]
    /\ dom' = [r \in Rows |-> "none"]
    /\ tasks' = Append(Noted(tasks, "refresh", ROOT, FALSE),
                       [Handler("refresh", ROOT, FALSE, checkMap)
                           EXCEPT !.phase = "render"])
    /\ event' = NoEvent
    /\ UNCHANGED << listing, expandMap, checkMap, allowMap, sent >>
    /\ UNCHANGED notSelVars

\* The responses renderRoot waits for have arrived: the new tree, built
\* outside the document with each box showing !!checkMap[fullPath], is
\* attached, syncDomFromCheckMap runs, and the handler goes on to
\* updatePreview.
RefreshDone(i) ==
    /\ i \in 1..Len(tasks)
    /\ tasks[i].phase = "render"
    /\ LET shown == RenderedUnder(expandMap, ROOT)
       IN  /\ dom' = syncDomFromCheckMap(
                         [r \in Rows |->
                             IF r \in shown
                             THEN BoxOf(checkMap[RowFullPath(r)] \in {"true", "dir"})
                             ELSE "none"],
                         checkMap)
           /\ treeCache' = [d \in Dirs |->
                  IF d = ROOT \/ (d \in shown /\ expandMap[d])
                  THEN CacheOfFirstPage(d) ELSE treeCache[d]]
    /\ updatePreview(RemoveAt(tasks, i), tasks[i], checkMap, allowMap, FALSE)
    /\ UNCHANGED << listing, expandMap, checkMap, allowMap, clicks >>
    /\ UNCHANGED notSelVars

SelNext ==
    \/ \E r \in Rows, confirm \in BOOLEAN : FileToggle(r, confirm)
    \/ \E r \in Rows, confirm \in BOOLEAN : FolderToggle(r, confirm)
    \/ SelectAll
    \/ UnselectAll
    \/ \E i \in 1..user.tasks : WalkStep(i)
    \/ \E i \in 1..user.tasks : PreviewDone(i)
    \/ \E r \in Rows : Expand(r)
    \/ \E d \in Dirs : LoadMore(d)
    \/ RefreshStart
    \/ \E i \in 1..user.tasks : RefreshDone(i)

(***************************************************************************)
(* The page: the tree view and its cache                                   *)
(*                                                                         *)
(* The arrows and the "Load more" buttons with their requests under way.   *)
(* The user of this part opens and closes the folders of the top level     *)
(* only, and presses Refresh only when no refresh is under way, so that    *)
(* each folder has one element in the document.                            *)
(***************************************************************************)
\* Bounds: the clicks, and the requests that may be under way at one time.
MaxViewClicks == 6
MaxFetches == 3

NamesOf(children) == [i \in 1..Len(children) |-> children[i].name]

NoViewCache == [has |-> FALSE, children |-> <<>>, total |-> 0, offset |-> 0]

\* const ul = document.createElement('ul'); renderChildrenInto(ul,
\* data.children); if (data.has_more) ul.appendChild(makeLoadMoreRow(...)).
\* gen tells which tree the list belongs to: the one in the document, or
\* one that a refresh has taken out of it.
NewList(gen, data) ==
    [gen |-> gen, items |-> NamesOf(data.children), button |-> data.has_more]

\* treeCache.set(fullPath, { children: data.children, total: data.total,
\*                          offset: data.children.length })
CacheFirst(data) ==
    [has |-> TRUE, children |-> NamesOf(data.children), total |-> data.total,
     offset |-> Len(data.children)]

\* (mutant) a cache that counts a whole page for every response
CacheAfterMoreWholePage(cache, nextOffset, data) ==
    [has |-> TRUE, children |-> cache.children \o NamesOf(data.children),
     total |-> data.total, offset |-> nextOffset + PAGE_SIZE]

\* treeCache.set(folderFullPath, { children: cache.children.concat(
\*     data.children), total: data.total, offset: nextOffset + data.children.length })
CacheAfterMore(cache, nextOffset, data) ==
    [has |-> TRUE, children |-> cache.children \o NamesOf(data.children),
     total |-> data.total, offset |-> nextOffset + Len(data.children)]

Fetch(kind, dir, list, cache) ==
    [kind |-> kind, dir |-> dir, gen |-> doc.gen, list |-> list, cache |-> cache,
     nextOffset |-> IF cache.has THEN cache.offset ELSE 0]

\* The folders of the top level, and whether the row of folder d is in the
\* document.
TopFolders == {n.fullPath : n \in {x \in Range(AllChildren[ROOT]) : x.is_dir}}

InDocument(d) ==
    /\ doc.attached
    /\ \/ d = ROOT
       \/ \E i \in 1..Len(viewLists[ROOT]) :
              /\ viewLists[ROOT][i].gen = doc.gen
              /\ Last(d) \in Range(viewLists[ROOT][i].items)

\* arrow.onclick of folder d, up to its request: the folder is opened or
\* closed, and when it is opened with no entry in the cache its first page
\* is asked for.
ArrowClick(d) ==
    /\ viewClicks < MaxViewClicks
    /\ d \in TopFolders /\ InDocument(d)
    /\ viewClicks' = viewClicks + 1
    /\ viewExpand' = [viewExpand EXCEPT ![d] = ~viewShown[d]]
    /\ viewShown' = [viewShown EXCEPT ![d] = ~viewShown[d]]
    /\ IF ~viewShown[d] /\ ~viewCache[d].has
       THEN /\ Len(fetches) < MaxFetches
            /\ fetches' = Append(fetches, Fetch("expand", d, 0, NoViewCache))
       ELSE fetches' = fetches
    /\ UNCHANGED << viewCache, viewLists, doc >>
    /\ UNCHANGED notViewVars

\* The first page of a folder arrives: a new list is put into the folder's
\* content and the cache entry is set.
ExpandDone(i) ==
    /\ i \in 1..Len(fetches)
    /\ fetches[i].kind = "expand"
    /\ LET f    == fetches[i]
           data == Page[f.dir][0]
       IN  /\ viewLists' = [viewLists EXCEPT ![f.dir] = Append(@, NewList(f.gen, data))]
           /\ viewCache' = [viewCache EXCEPT ![f.dir] = CacheFirst(data)]
    /\ fetches' = RemoveAt(fetches, i)
    /\ UNCHANGED << viewExpand, viewShown, doc, viewClicks >>
    /\ UNCHANGED notViewVars

\* btn.onclick of the "Load more" row of list u of folder d, up to its
\* request: the cache entry is read and the page at its offset asked for.
LoadMoreClick(d, u) ==
    /\ viewClicks < MaxViewClicks /\ Len(fetches) < MaxFetches
    /\ u \in 1..Len(viewLists[d])
    /\ viewLists[d][u].gen = doc.gen /\ viewLists[d][u].button
    /\ InDocument(d) /\ (d = ROOT \/ viewShown[d])
    /\ viewClicks' = viewClicks + 1
    /\ fetches' = Append(fetches, Fetch("more", d, u, viewCache[d]))
    /\ UNCHANGED << viewCache, viewExpand, viewLists, viewShown, doc >>
    /\ UNCHANGED notViewVars

\* The next page arrives.  Its rows go into the list before the button's
\* row (a TypeError ends the handler when there are rows and the button's
\* row has left its list: li.parentElement is null); then the cache entry
\* is set from the entry read at the click (a TypeError ends the handler
\* when there was none), and the button's row is removed after the last page.
LoadMoreDone(i) ==
    /\ i \in 1..Len(fetches)
    /\ fetches[i].kind = "more"
    /\ LET f    == fetches[i]
           data == Page[f.dir][f.nextOffset]
           ul   == viewLists[f.dir][f.list]
       IN  IF ~ul.button /\ Len(data.children) > 0
           THEN UNCHANGED << viewLists, viewCache >>
           ELSE IF ~f.cache.has
           THEN /\ viewLists' = [viewLists EXCEPT ![f.dir][f.list].items =
                                     @ \o NamesOf(data.children)]
                /\ UNCHANGED viewCache
           ELSE /\ viewLists' = [viewLists EXCEPT ![f.dir][f.list] =
                       [gen |-> ul.gen, items |-> ul.items \o NamesOf(data.children),
                        button |-> ul.button /\ data.has_more]]
                /\ viewCache' = [viewCache EXCEPT ![f.dir] =
                                     CacheAfterMore(f.cache, f.nextOffset, data)]
    /\ fetches' = RemoveAt(fetches, i)
    /\ UNCHANGED << viewExpand, viewShown, doc, viewClicks >>
    /\ UNCHANGED notViewVars

\* refreshBtn, up to the first request of renderRoot: the cache is cleared
\* and the tree is taken out of the document.
ViewRefreshStart ==
    /\ viewClicks < MaxViewClicks /\ Len(fetches) < MaxFetches
    /\ \A i \in 1..Len(fetches) : fetches[i].kind # "refresh"
    /\ viewClicks' = viewClicks + 1
    /\ viewCache' = [d \in Dirs |-> NoViewCache]
    /\ doc' = [gen |-> doc.gen + 1, attached |-> FALSE]
    /\ fetches' = Append(fetches, [Fetch("refresh", ROOT, 0, NoViewCache)
                                      EXCEPT !.gen = doc.gen + 1])
    /\ UNCHANGED << viewExpand, viewLists, viewShown >>
    /\ UNCHANGED notViewVars

\* The responses renderRoot waits for have arrived: the first page of the
\* root and, for each of its folders that expandMap has open, the first
\* page of the folder; each gets its list and its cache entry, and the new
\* tree is put into the document.
ViewRefreshDone(i) ==
    /\ i \in 1..Len(fetches)
    /\ fetches[i].kind = "refresh"
    /\ LET root   == Page[ROOT][0]
           opened == {n.fullPath : n \in {x \in Range(root.children) :
                                               x.is_dir /\ viewExpand[x.fullPath]}}
       IN  /\ viewLists' = [d \in Dirs |->
                  IF d = ROOT THEN Append(viewLists[d], NewList(doc.gen, root))
                  ELSE IF d \in opened
                  THEN Append(viewLists[d], NewList(doc.gen, Page[d][0]))
                  ELSE viewLists[d]]
           /\ viewCache' = [d \in Dirs |->
                  IF d = ROOT THEN CacheFirst(root)
                  ELSE IF d \in opened THEN CacheFirst(Page[d][0])
                  ELSE viewCache[d]]
    /\ viewShown' = viewExpand
    /\ doc' = [doc EXCEPT !.attached = TRUE]
    /\ fetches' = RemoveAt(fetches, i)
    /\ UNCHANGED << viewExpand, viewClicks >>
    /\ UNCHANGED notViewVars

ViewNext ==
    \/ \E d \in Dirs : ArrowClick(d)
    \/ \E i \in 1..MaxFetches : ExpandDone(i)
    \/ \E d \in Dirs, u \in 1..MaxViewClicks : LoadMoreClick(d, u)
    \/ \E i \in 1..MaxFetches : LoadMoreDone(i)
    \/ ViewRefreshStart
    \/ \E i \in 1..MaxFetches : ViewRefreshDone(i)

(***************************************************************************)
(* Specifications                                                          *)
(***************************************************************************)
\* window.onload with an empty localStorage: renderRoot() renders the first
\* page of the root and caches it.
FirstRender ==
    syncDomFromCheckMap(
        renderChildrenInto([r \in Rows |-> "none"], NoMap, ROOT, Page[ROOT][0].children),
        NoMap)

RootCache ==
    LET data == Page[ROOT][0]
    IN  [has |-> TRUE, offset |-> Len(data.children), total |-> data.total,
         more |-> data.has_more]

\* After start-up: no request was made yet, the page shows the root and
\* nothing is selected.
Loaded ==
    /\ treeReq = NoRequest
    /\ treeResp = Idle
    /\ pager = NoPager
    /\ copyReq = NoCopyRequest
    /\ copyResp = CopyIdle
    /\ copyReads = {}
    /\ ignCall = NoIgnCall
    /\ rendered = NoRendered
    /\ listing = Listing
    /\ checkMap = NoMap
    /\ allowMap = NoAllow
    /\ dom = FirstRender
    /\ treeCache = [d \in Dirs |-> IF d = ROOT THEN RootCache ELSE NoCache]
    /\ expandMap = [d \in Dirs |-> FALSE]
    /\ tasks = <<>>
    /\ sent = {}
    /\ clicks = 0
    /\ event = NoEvent
    /\ viewCache = [d \in Dirs |-> IF d = ROOT THEN CacheFirst(Page[ROOT][0])
                                   ELSE NoViewCache]
    /\ viewExpand = [d \in Dirs |-> FALSE]
    /\ viewLists = [d \in Dirs |-> IF d = ROOT THEN << NewList(0, Page[ROOT][0]) >>
                                   ELSE << >>]
    /\ viewShown = [d \in Dirs |-> FALSE]
    /\ doc = [gen |-> 0, attached |-> TRUE]
    /\ fetches = << >>
    /\ viewClicks = 0

\* The user who waits for the page to settle before the next click.
Init == Loaded /\ user = [clicks |-> MaxClicks, tasks |-> MaxTasks]

\* The user who clicks while earlier clicks are still being handled.
InitRace == Loaded /\ user = [clicks |-> MaxRaceClicks, tasks |-> MaxRaceTasks]

InitWalk == Loaded /\ user = [clicks |-> MaxWalkClicks, tasks |-> MaxWalkTasks]

\* The tree listing service, under any request.
SpecTree == Init /\ [][TreeNext]_vars

\* The snapshot assembler, under any request.
SpecCopy == Init /\ [][CopyNext]_vars

\* The ignore matcher, under any call.
SpecIgnore == Init /\ [][IgnoreNext]_vars

\* The renderer, under any file content and any I/O failure.
SpecRender == Init /\ [][RenderNext]_vars

\* The page, under any clicks and any order of the responses.
SpecSel == Init /\ [][SelNext]_vars

\* The page, under clicks made while earlier ones are still being handled.
SpecRace == InitRace /\ [][SelNext]_vars

\* The page, with every request of a walk answered in the end: a walk that
\* waits for a page goes on when the page arrives.
SpecWalk ==
    InitWalk /\ [][SelNext]_vars /\ WF_vars(\E i \in 1..MaxWalkTasks : WalkStep(i))

\* The tree view, under any clicks on arrows, "Load more" and Refresh and
\* any order of the responses.
SpecView == Init /\ [][ViewNext]_vars

(***************************************************************************)
(* Properties of the tree listing                                          *)
(***************************************************************************)
\* The immediate children of directory D that resolve inside the root and
\* are not ignored, read off the filesystem.
ListableEntries(D) ==
    {e \in Range(ScanDir(D)) :
        /\ IsPrefix(ROOT, Resolve(e.path))
        /\ ~ignored(RelPosix(Resolve(e.path)), e.kind = "dir")}

\* Directories first, then by case-insensitive name.
InListingOrder(x, y) ==
    \/ x.is_dir /\ ~y.is_dir
    \/ x.is_dir = y.is_dir /\ ~StrLess(Lower(y.name), Lower(x.name))

\* C1: for every directory D inside the root and every page size N >= 1, the
\* pages listChildren(D, 0, N), listChildren(D, N, N), ... up to the first one
\* with has_more false, concatenated, are exactly D's non-ignored in-root
\* children, each once, directories first and then by case-insensitive name.
C1_PagesReproduceListing ==
    (pager.active /\ pager.done) =>
        LET acc  == pager.acc
            want == ListableEntries(pager.dir)
        IN  /\ Len(acc) = Cardinality(want)
            /\ {acc[i].name : i \in 1..Len(acc)} = {Last(e.path) : e \in want}
            /\ \A i, j \in 1..Len(acc) :
                  i < j => /\ acc[i].name # acc[j].name
                           /\ InListingOrder(acc[i], acc[j])

\* C1 (witness): a directory holding a subdirectory and files was read to
\* the end in more than one page.
C1_Witness ==
    /\ pager.active /\ pager.done
    /\ pager.limit < Len(pager.acc)
    /\ \E i, j \in 1..Len(pager.acc) : pager.acc[i].is_dir /\ ~pager.acc[j].is_dir

\* The entries of directory D that resolve outside the root.
EscapingEntries(D) == {e \in Range(ScanDir(D)) : ~IsPrefix(ROOT, Resolve(e.path))}

\* C4: every child node a tree listing returns resolves inside the root; an
\* entry that resolves outside it is left out of children and of total, and
\* a well-formed request for a directory that holds one is still answered
\* with the listing (200).
C4_ChildrenInsideRoot ==
    /\ \A i \in 1..Len(treeResp.children) :
          IsPrefix(ROOT, Resolve(treeResp.children[i].fullPath))
    /\ treeResp.status = 200 =>
          /\ \A e \in EscapingEntries(treeResp.parent) :
                \A i \in 1..Len(treeResp.children) :
                    treeResp.children[i].name # Last(e.path)
          /\ treeResp.total + Cardinality(EscapingEntries(treeResp.parent))
                <= Len(ScanDir(treeResp.parent))
    /\ ( /\ treeResp \notin {Idle, Pending}
         /\ treeReq.offset.k # "text" /\ treeReq.limit.k # "text"
         /\ treeReq.scan = "none"
         /\ Resolve(JoinRoot(treeReq.path)) \in RootDirs )
       => treeResp.status = 200

\* C4 (witness): the whole listing of a directory that holds a link to a
\* file outside the root was returned.
C4_Witness ==
    /\ treeResp.status = 200
    /\ EscapingEntries(treeResp.parent) # {}
    /\ Len(treeResp.children) = treeResp.total
    /\ treeResp.total > 0


TreeServed == treeResp \notin {Idle, Pending}

\* The directory a request names, and whether it is one the listing is
\* refused for: it does not exist, is no directory, or lies outside the root.
RequestedDir == IF treeReq.path.segs = <<>> THEN ROOT ELSE Resolve(JoinRoot(treeReq.path))
InvalidDir(d) == KindOf(d) # "dir" \/ ~IsPrefix(ROOT, d)

\* C12: a tree listing call fails with 400 'Invalid path' exactly when
\* the directory argument does not exist, is no directory or resolves
\* outside the root, and then returns no children; every other request,
\* whatever offset and limit it supplies, is answered with a listing (no
\* scan failure being met).
C12_OnlyInvalidPathFails ==
    (TreeServed /\ treeReq.scan = "none") =>
        /\ (treeResp.status = 400) = InvalidDir(RequestedDir)
        /\ treeResp.status = 400 =>
              treeResp.error = "Invalid path" /\ treeResp.children = <<>>
        /\ ~InvalidDir(RequestedDir) => treeResp.status = 200

\* The integer a query-string value stands for (the default when absent).
ArgValue(arg, default) == IF arg.k = "absent" THEN default ELSE arg.v

\* C13: when a valid directory inside the root cannot be scanned (opening
\* or iterating it fails, whatever the failure), a well-formed request for
\* it is answered with an empty listing: no children, total 0 and, offset
\* and limit not being negative, has_more false.
C13_UnscannableYieldsEmpty ==
    (/\ TreeServed /\ treeReq.scan # "none"
     /\ treeReq.offset.k # "text" /\ treeReq.limit.k # "text"
     /\ ~InvalidDir(RequestedDir))
    => /\ treeResp.status = 200
       /\ treeResp.children = <<>>
       /\ treeResp.total = 0
       /\ (ArgValue(treeReq.offset, 0) >= 0 /\ ArgValue(treeReq.limit, DEFAULT_LIMIT) >= 0)
             => ~treeResp.has_more

\* C18: in every listing response, total is the number of the directory's
\* non-ignored in-root children whatever offset and limit are, the children
\* are the entries at positions offset <= i < offset + limit of the sorted
\* list (positions counted from 0), and has_more holds exactly when
\* offset + limit < total.
C18_PageIsSliceOfListing ==
    (TreeServed /\ treeResp.status = 200 /\ treeReq.scan = "none") =>
        LET full == Sorted[treeResp.parent]
            idx  == {i \in 1..Len(full) :
                        /\ treeResp.offset <= i - 1
                        /\ i - 1 < treeResp.offset + treeResp.limit}
        IN  /\ treeResp.total = Cardinality(ListableEntries(treeResp.parent))
            /\ Len(treeResp.children) = Cardinality(idx)
            /\ \A k \in 1..Len(treeResp.children) :
                  /\ \A i \in idx : i >= treeResp.offset + 1
                  /\ treeResp.offset + k \in idx
                  /\ treeResp.children[k].name = full[treeResp.offset + k].name
            /\ treeResp.has_more = (treeResp.offset + treeResp.limit < treeResp.total)

(***************************************************************************)
(* Properties of the ignore matcher                                        *)
(***************************************************************************)
\* The directory-only patterns (ending in "/") that match the path: the
\* pattern without its final "/" is a glob for the whole path.
DirOnlyMatches(rel) ==
    {i \in 1..Len(IGNORE_PATTERNS) :
        /\ Last(IGNORE_PATTERNS[i]) = "/"
        /\ fnmatch(rel, Front(IGNORE_PATTERNS[i]))}

\* The other patterns that match the path.
PlainMatches(rel) ==
    {i \in 1..Len(IGNORE_PATTERNS) :
        /\ Last(IGNORE_PATTERNS[i]) # "/"
        /\ fnmatch(rel, IGNORE_PATTERNS[i])}

\* C11: a path matched by a directory-only pattern and by no other pattern
\* is ignored as a directory and not ignored as a file.
C11_DirOnlyPatternSparesFiles ==
    (/\ ignCall.called
     /\ DirOnlyMatches(ignCall.rel) # {}
     /\ PlainMatches(ignCall.rel) = {})
    => ignCall.result = ignCall.is_dir

\* C11 (witness): "build" was asked about as a file and was not ignored.
C11_Witness ==
    /\ ignCall.called /\ ignCall.rel = n_build /\ ~ignCall.is_dir
    /\ DirOnlyMatches(ignCall.rel) # {} /\ PlainMatches(ignCall.rel) = {}
    /\ ~ignCall.result

(***************************************************************************)
(* Properties of the renderer                                              *)
(***************************************************************************)
\* The file was read to its end: no call failed, and no NUL byte is among
\* the bytes sniffed.
SniffedNul(content) ==
    \E i \in 1..Len(content) : i <= BINARY_SNIFF_BYTES /\ content[i] = "NUL"

ReadAsText ==
    rendered.done /\ rendered.fault = NoFault /\ ~SniffedNul(rendered.content)

\* The first n bytes, decoded.
DecodedPrefix(content, n) ==
    [i \in 1..Min(n, Len(content)) |->
        IF content[i] = "BAD" THEN "REPL" ELSE content[i]]

\* The notice of a truncated file: its size and the cap.
TruncationNotice(size) ==
    << "<Truncated: " >> \o Decimal(size) \o << " bytes > " >>
        \o Decimal(MAX_FILE_BYTES) \o << " byte preview>" >>

\* C14: of a file read as text, truncated is reported exactly when its size
\* is greater than MAX_FILE_BYTES; then the text is the notice naming the
\* size and the cap, a newline and the first MAX_FILE_BYTES bytes (so for a
\* file of MAX_FILE_BYTES + 1 bytes), and otherwise (so for a file of
\* exactly MAX_FILE_BYTES bytes) it is the whole content without a notice.
\* A file rendered as binary or as an error note is never reported
\* truncated.
C14_TruncatedAboveCap ==
    rendered.done =>
        LET size == Len(rendered.content)
        IN  IF ReadAsText
            THEN /\ rendered.r.truncated = (size > MAX_FILE_BYTES)
                 /\ rendered.r.note = "none"
                 /\ size > MAX_FILE_BYTES =>
                       rendered.r.text = TruncationNotice(size) \o << "\n" >>
                                         \o DecodedPrefix(rendered.content, MAX_FILE_BYTES)
                 /\ size <= MAX_FILE_BYTES =>
                       rendered.r.text = DecodedPrefix(rendered.content, size)
            ELSE ~rendered.r.truncated

\* C14 (witness): a file of exactly MAX_FILE_BYTES + 1 bytes was rendered
\* truncated.
C14_Witness ==
    /\ ReadAsText
    /\ Len(rendered.content) = MAX_FILE_BYTES + 1
    /\ rendered.r.truncated
    /\ Len(rendered.r.text) > MAX_FILE_BYTES

\* C14 as stated: truncated is reported exactly when the size is greater
\* than MAX_FILE_BYTES, for every file rendered.
C14_TruncatedIffAboveCap ==
    rendered.done => (rendered.r.truncated = (Len(rendered.content) > MAX_FILE_BYTES))

\* C15: a file whose first bytes can be read (stat and open succeed) is
\* rendered as the binary placeholder - note binary, not truncated, the
\* placeholder alone in a fence of three backticks without a language -
\* exactly when a NUL byte is among its first BINARY_SNIFF_BYTES bytes,
\* whatever its extension and its size; a NUL byte further on does not make
\* it binary.
C15_BinaryIffNulInHead ==
    (rendered.done /\ rendered.fault.op \notin {"stat", "open"}) =>
        /\ (rendered.r.note = "binary") = SniffedNul(rendered.content)
        /\ rendered.r.note = "binary" =>
              /\ ~rendered.r.truncated
              /\ rendered.r.text = << "<Binary file omitted>" >>
              /\ rendered.piece.body = << "<Binary file omitted>" >>
              /\ rendered.piece.lang = ""
              /\ rendered.piece.open = 3 /\ rendered.piece.close = 3

\* C15 (witness): a .js file larger than the cap with a NUL byte among the
\* bytes sniffed was rendered as the placeholder.
C15_Witness ==
    /\ rendered.done /\ rendered.fault = NoFault
    /\ rendered.path = ROOT \o << n_C, n_build, n_xjs >>
    /\ Len(rendered.content) > MAX_FILE_BYTES
    /\ rendered.content[BINARY_SNIFF_BYTES] = "NUL"
    /\ rendered.r.note = "binary"

\* The lengths of the runs of backticks in s (0 among them).
TickRuns(s) ==
    {k \in 0..Len(s) : \E i \in 1..(Len(s) - k + 1) : \A j \in i..(i + k - 1) : s[j] = "TICK"}

LongestTickRun(s) == CHOOSE k \in TickRuns(s) : \A m \in TickRuns(s) : m <= k

\* C16: around the text of a file (what _dynamic_fence wraps), the opening
\* and the closing fence are the same and max(3, k + 1) backticks long, k
\* being the longest run of backticks in the text.
C16_FenceLongerThanRuns ==
    (rendered.done /\ rendered.piece.note = "none") =>
        LET k == LongestTickRun(rendered.piece.body)
        IN  /\ rendered.piece.open = Max(3, k + 1)
            /\ rendered.piece.close = rendered.piece.open
            /\ rendered.piece.open > k /\ rendered.piece.open >= 3

\* C16 (witness): a text holding a run of three backticks was fenced with
\* four.
C16_Witness ==
    /\ rendered.done /\ rendered.piece.note = "none"
    /\ LongestTickRun(rendered.piece.body) = 3
    /\ rendered.piece.open = 4 /\ rendered.piece.close = 4

\* C25: every fenced block of the document - the text of a file, the binary
\* placeholder and the error note alike - has an opening and a closing fence
\* strictly longer than the longest run of backticks in its body, so also
\* when the body is an error message quoting a file name with backticks.
C25_EveryFenceLongerThanRuns ==
    rendered.done =>
        LET k == LongestTickRun(rendered.piece.body)
        IN  rendered.piece.open > k /\ rendered.piece.close > k

(***************************************************************************)
(* Properties of the snapshot assembly                                     *)
(***************************************************************************)
CopyServed == copyResp \notin {CopyIdle, CopyPending}

\* The resolved path is an existing regular file inside the root.
RegularInRoot(p) == IsPrefix(ROOT, p) /\ KindOf(p) = "file"

\* The request is a list of strings (or holds no list at all): nothing but
\* the paths it names decides the answer.
OnlyPathsRequested ==
    \/ copyReq.body.json \in {"malformed", "falsy"}
    \/ /\ copyReq.body.json = "object"
       /\ copyReq.body.files \in {"absent", "list"}
       /\ \A i \in 1..Len(copyReq.body.items) : copyReq.body.items[i].k = "str"

\* C3: snapshot assembly reads and emits content only for requested paths
\* that resolve inside the root to an existing regular file; a path that
\* resolves outside the root, does not exist or is no regular file adds no
\* block, and a request of paths is answered (200) whatever paths it holds.
C3_InvalidPathsDropped ==
    CopyServed =>
        /\ \A p \in copyReads : RegularInRoot(p)
        /\ \A i \in 1..Len(copyResp.pieces) :
              /\ RegularInRoot(copyResp.pieces[i].path)
              /\ \E j \in 1..Len(copyReq.body.items) :
                    /\ copyReq.body.items[j].k = "str"
                    /\ ResolveRaw(copyReq.body.items[j].path) = copyResp.pieces[i].path
        /\ OnlyPathsRequested => copyResp.status = 200

\* C3 (witness): a request naming a link that leads outside the root, a
\* directory or a missing file together with a regular file was answered
\* with that file's block.
C3_Witness ==
    /\ CopyServed /\ copyResp.status = 200
    /\ copyResp.pieces # <<>>
    /\ \E j \in 1..Len(copyReq.body.items) :
          /\ copyReq.body.items[j].k = "str"
          /\ ~IsPrefix(ROOT, ResolveRaw(copyReq.body.items[j].path))
    /\ \E j \in 1..Len(copyReq.body.items) :
          /\ copyReq.body.items[j].k = "str"
          /\ KindOf(ResolveRaw(copyReq.body.items[j].path)) \in {"dir", "none"}

\* C9: a POST /copy request always gets a 200 response whose body is what
\* could be rendered (empty when no entry is valid), whatever the body:
\* missing or malformed JSON, a "files" value that is no list, list elements
\* that are no paths.
C9_AlwaysOk ==
    CopyServed =>
        /\ copyResp.status = 200
        /\ (\A j \in 1..Len(copyReq.body.items) :
               \/ copyReq.body.items[j].k # "str"
               \/ ~RegularInRoot(ResolveRaw(copyReq.body.items[j].path)))
           => copyResp.pieces = <<>>

\* The requested paths that resolve to a regular file inside the root, in
\* the order of the request.
ValidRequested ==
    SelectSeq(copyReq.body.items,
              LAMBDA it : it.k = "str" /\ RegularInRoot(ResolveRaw(it.path)))

\* C10: the snapshot holds one block per requested path that resolves inside
\* the root to an existing regular file, in the order of the request (a path
\* named twice gives two blocks); a file rendered as the binary placeholder
\* or as an error note has its heading and its fenced block at its position.
C10_BlocksInRequestOrder ==
    (CopyServed /\ copyResp.status = 200) =>
        /\ Len(copyResp.pieces) = Len(ValidRequested)
        /\ \A i \in 1..Len(copyResp.pieces) :
              LET piece == copyResp.pieces[i]
                  p     == ResolveRaw(ValidRequested[i].path)
              IN  /\ piece.path = p
                  /\ piece.heading = RelPosix(p)
                  /\ piece.open >= 3 /\ piece.close = piece.open
                  /\ piece.body # <<>> \/ Entry(p).content = <<>>
                  /\ Fails(copyReq.fault, p, "stat") => piece.note = "error"

\* C10 (witness): three blocks, the first an error note, the second the
\* binary placeholder, the third the first file again.
C10_Witness ==
    /\ CopyServed /\ copyResp.status = 200
    /\ Len(copyResp.pieces) = 3
    /\ copyResp.pieces[1].note = "error"
    /\ copyResp.pieces[2].note = "binary"
    /\ copyResp.pieces[3].path = copyResp.pieces[1].path

\* The failure strikes a call that the rendering of p comes to make: stat,
\* the open of the sniff, or the bounded read of a file not found binary.
FailureMet(fault, p) ==
    \/ Fails(fault, p, "stat")
    \/ Fails(fault, p, "open")
    \/ Fails(fault, p, "read") /\ ~SniffedNul(Entry(p).content)

\* C17: a failure of stat, of open or of read while a file is rendered
\* does not fail the request: the file's block is an error note, not
\* truncated, with a message that is not empty, and the blocks of the other
\* files of the batch are what they are without the failure.
C17_IOFailureBecomesNote ==
    (CopyServed /\ OnlyPathsRequested) =>
        /\ copyResp.status = 200
        /\ Len(copyResp.pieces) = Len(ValidRequested)
        /\ \A i \in 1..Len(copyResp.pieces) :
              LET piece == copyResp.pieces[i]
              IN  IF FailureMet(copyReq.fault, piece.path)
                  THEN /\ piece.note = "error"
                       /\ ~piece.truncated
                       /\ piece.body # <<>>
                       /\ Head(piece.body) \in {"Error: stat failed: ",
                              "Error: open failed: ", "Error: read failed: "}
                  ELSE piece = Snippet(piece.path, NoFault)

\* C17 (witness): the read of one file of the batch failed; its block is an
\* error note and another file's block holds that file's text.
C17_Witness ==
    /\ CopyServed /\ copyResp.status = 200
    /\ copyReq.fault.op = "read"
    /\ \E i, j \in 1..Len(copyResp.pieces) :
          /\ copyResp.pieces[i].note = "error"
          /\ copyResp.pieces[i].path = copyReq.fault.path
          /\ copyResp.pieces[j].note = "none"
          /\ copyResp.pieces[j].body # <<>>

(***************************************************************************)
(* Properties of the selection                                             *)
(***************************************************************************)
\* The rows below directory D (the root included) and their fullPaths; of
\* these, the files: what the tree provider lists as a file and is one.
RowsBelow(D) == {r \in Rows : IsPrefix(D, r) /\ r # D}
DescKeys(D) == {RowFullPath(r) : r \in RowsBelow(D)}
DescFiles(D) ==
    {RowFullPath(r) : r \in {x \in RowsBelow(D) : ~RowIsDir(x) /\ IsFile(RowFullPath(x))}}

p_a == ROOT \o << n_a >>
p_a_git == ROOT \o << n_a, n_git >>
p_a_btxt == ROOT \o << n_a, n_btxt >>
p_C == ROOT \o << n_C >>
p_build == ROOT \o << n_C, n_build >>
p_xjs == ROOT \o << n_C, n_build, n_xjs >>

\* C2: with the default ignore rules and a root holding a/b.txt and
\* a/.git/config, no row of the tree is named .git, and when the only click
\* made selects directory a, the files sent to the assembler are exactly
\* {a/b.txt}.
C2_GitIgnoredAtEveryDepth ==
    /\ \A r \in Rows : dom[r] # "none" => Last(r) # n_git
    /\ (/\ event.previewDone /\ event.op = "toggle" /\ event.checked
        /\ event.root = p_a /\ clicks = 1)
       => sent = {p_a_btxt}

\* C5: when updatePreview comes to its end, for every directory D it saw
\* selected ('dir') and every file F below D it saw excluded (false), the
\* files sent do not contain F and contain every other file below D that
\* is neither excluded nor on a blacklisted path.
C5_ExclusionBeatsDirectory ==
    event.previewDone =>
        \A D \in SelectedDirs(event.snap) :
            \A F \in DescFiles(D) \cap Excluded(event.snap) :
                /\ F \notin sent
                /\ \A G \in DescFiles(D) \ Excluded(event.snap) :
                       ~Blacklisted[G] => G \in sent

\* The case of C5: directory a was selected, then its file b.txt was
\* unchecked, and the preview that followed sent the other file below a.
C5_Witness ==
    /\ event.previewDone /\ event.op = "file" /\ ~event.checked
    /\ event.root = p_a_btxt
    /\ event.pre[p_a] = "dir" /\ event.snap[p_a] = "dir"
    /\ event.snap[p_a_btxt] = "false"
    /\ sent # {} /\ p_a_btxt \notin sent

C7_DeselectClearsEverything ==
    (event.op = "toggle" /\ ~event.checked) =>
        /\ event.walkDone =>
               \A k \in {event.root} \cup DescKeys(event.root) :
                   checkMap[k] \in {"false", "absent"}
        /\ event.previewDone => sent \cap DescFiles(event.root) = {}

\* C19: when the walk of a directory toggle that selects D completes and no
\* other click was made since the toggle, D is mapped to 'dir', and of the
\* rows the tree provider lists below D, on whatever page and whether
\* rendered or not, every file on no blacklisted path is mapped to true
\* and every directory on no blacklisted path to 'dir'.
C19_SelectWalkMarksAll ==
    (/\ event.op = "toggle" /\ event.checked /\ event.walkDone
     /\ event.click = clicks) =>
        /\ checkMap[event.root] = "dir"
        /\ \A r \in RowsBelow(event.root) :
               ~Blacklisted[RowFullPath(r)] =>
                   checkMap[RowFullPath(r)] = IF RowIsDir(r) THEN "dir" ELSE "true"

\* C8: the files sent to the assembler never contain a blacklisted path P
\* unless allowMap holds P itself.
C8_BlacklistNeedsOwnConsent ==
    \A P \in sent : Blacklisted[P] => allowMap[P]

\* The case of C8: the blacklisted directory build was selected with the
\* user's consent, which allowMap holds for build only; the preview walked
\* build and did not send the file x.js inside it.
C8_Witness ==
    /\ event.previewDone
    /\ event.snap[p_build] = "dir"
    /\ allowMap[p_build] /\ ~allowMap[p_xjs]
    /\ p_xjs \in collectAllFilesUnder(p_build, allowMap)
    /\ p_xjs \notin sent

(***************************************************************************)
(* Properties of the tri-state display                                     *)
(***************************************************************************)
\* The click on the checkbox of row r was accepted: the box keeps the state
\* the click gave it, and the handler has run updateParentFolders from r.
Propagates(r) ==
    /\ \E confirm \in BOOLEAN : FileToggle(r, confirm) \/ FolderToggle(r, confirm)
    /\ dom'[r] = BoxOf(dom[r] # "on")

\* The folder rows above row r, and the rendered rows directly inside
\* folder row A.
AncestorRows(r) == {A \in Rows : IsPrefix(A, r) /\ A # r}
RenderedChildren(d, A) == {x \in Rows : d[x] # "none" /\ Front(x) = A}

\* Folder A shows what its rendered children alone make it: checked when
\* all of them are checked, unchecked when none is, indeterminate otherwise.
FromDirectChildren(d, A) ==
    d[A] = TriState(Cardinality({x \in RenderedChildren(d, A) : d[x] = "on"}),
                    Cardinality(RenderedChildren(d, A)))

\* C20: after the upward propagation that follows a click on a checkbox,
\* every folder above the clicked row shows the tri-state of its directly
\* rendered children only: checked when all are checked, unchecked when
\* none is, indeterminate otherwise, whatever the boxes further down show.
C20_AncestorsFromDirectChildren ==
    [][\A r \in Rows :
          Propagates(r) => \A A \in AncestorRows(r) : FromDirectChildren(dom', A)]_vars

(***************************************************************************)
(* Properties of Unselect All                                              *)
(***************************************************************************)
\* The fullPath k is that of a row the page shows.
RenderedKey(k) == \E r \in Rows : dom[r] # "none" /\ RowFullPath(r) = k

\* C21 (as the code has it): when Unselect All has completed, no entry of
\* checkMap is true or 'dir', whatever was selected before and wherever,
\* and the effective file set is empty; a rendered path is mapped to false,
\* except that a rendered blacklisted path with no override has no entry,
\* and an unrendered path has no entry.
C21_UnselectAllClears ==
    event.op = "unselectAll" =>
        /\ \A k \in Keys : checkMap[k] \notin {"true", "dir"}
        /\ event.previewDone /\ sent = {}
        /\ \A k \in Keys :
               checkMap[k] = IF RenderedKey(k) /\ (~Blacklisted[k] \/ allowMap[k])
                             THEN "false" ELSE "absent"

\* The case of C21: directory a was selected while collapsed, so that
\* a/.git/config, not rendered, was mapped to true; folder C was expanded,
\* which shows the blacklisted build; then Unselect All ran.
C21_Witness ==
    /\ event.op = "unselectAll" /\ event.previewDone
    /\ event.pre[p_a] = "dir"
    /\ \E k \in Keys : ~RenderedKey(k) /\ event.pre[k] = "true" /\ checkMap[k] = "absent"
    /\ checkMap[p_a] = "false"
    /\ RenderedKey(p_build) /\ checkMap[p_build] = "absent"
    /\ sent = {}

\* C21 as stated: after Unselect All no entry is true or 'dir', every
\* rendered path is false and every unrendered path is absent, and the
\* effective file set is empty.
C21_RenderedFalseUnrenderedAbsent ==
    event.op = "unselectAll" =>
        /\ \A k \in Keys : checkMap[k] \notin {"true", "dir"}
        /\ sent = {}
        /\ \A k \in Keys :
               checkMap[k] = IF RenderedKey(k) THEN "false" ELSE "absent"

(***************************************************************************)
(* Properties of the file toggle                                           *)
(***************************************************************************)
\* The user declines the confirmation that checking the box of fp brings up:
\* fp is blacklisted and has no override.
Declined(r, confirm) ==
    /\ dom[r] # "on"
    /\ Blacklisted[RowFullPath(r)] /\ ~allowMap[RowFullPath(r)]
    /\ ~confirm

\* C22: a click on the checkbox of file F maps F to true (box checked) or
\* to false (box unchecked) and leaves every other entry of checkMap as it
\* was; when F is blacklisted with no override and the user declines the
\* confirmation, checkMap and allowMap stay as they were and the box is
\* left unchecked.
C22_FileToggleSetsOwnEntryOnly ==
    [][\A r \in Rows, confirm \in BOOLEAN :
          FileToggle(r, confirm) =>
              IF Declined(r, confirm)
              THEN checkMap' = checkMap /\ allowMap' = allowMap /\ dom'[r] = "off"
              ELSE /\ checkMap'[RowFullPath(r)] = IF dom[r] # "on" THEN "true" ELSE "false"
                   /\ dom'[r] = BoxOf(dom[r] # "on")
                   /\ \A k \in Keys \ {RowFullPath(r)} : checkMap'[k] = checkMap[k]]_vars

\* The case of C22: the box of a file was checked while other paths had
\* entries; the file's entry is true and the others are as they were.
C22_Witness ==
    /\ event.op = "file" /\ event.checked /\ event.click = clicks
    /\ event.pre[event.root] # "true"
    /\ \E k \in Keys \ {event.root} : event.pre[k] # "absent"
    /\ checkMap = [event.pre EXCEPT ![event.root] = "true"]

(***************************************************************************)
(* Properties of the overrides                                             *)
(***************************************************************************)
\* The user checks the box of row r, whose path is blacklisted and has no
\* override, and accepts the confirmation.
Granted(r) ==
    /\ dom[r] # "on"
    /\ Blacklisted[RowFullPath(r)] /\ ~allowMap[RowFullPath(r)]
    /\ FileToggle(r, TRUE) \/ FolderToggle(r, TRUE)

\* C23: allowMap only grows.  No step of the page (file or folder toggle,
\* a page of a walk, Select All, Unselect All, refresh, expand, load more)
\* takes an entry away; a step adds an entry for path P only when it is an
\* accepted confirmation for a row of path P; and while P has its entry,
\* checking the box of P is let pass whatever the user would answer: the
\* confirmation is not asked.
C23_OverridesOnlyGrow ==
    /\ [][\A k \in Keys :
             /\ allowMap[k] => allowMap'[k]
             /\ (~allowMap[k] /\ allowMap'[k]) =>
                    \E r \in Rows : RowFullPath(r) = k /\ Granted(r)]_vars
    /\ [](\A k \in Keys :
             allowMap[k] => /\ shouldAllowSelection(allowMap, k, FALSE).ret
                            /\ shouldAllowSelection(allowMap, k, FALSE).allowMap = allowMap)

\* The case of C23: a blacklisted path was selected with the user's
\* consent, cleared again, and now selected once more; the override is
\* still there.
C23_Witness ==
    /\ event.op \in {"file", "toggle"} /\ event.checked /\ event.click = clicks
    /\ clicks = MaxClicks
    /\ Blacklisted[event.root] /\ allowMap[event.root]
    /\ event.pre[event.root] = "false"
    /\ checkMap[event.root] \in {"true", "dir"}

(***************************************************************************)
(* Properties of the tree view and its cache                               *)
(***************************************************************************)
\* C24: in every state of the page, after any clicks on arrows, on "Load
\* more" and on Refresh and any order of the responses, each entry of the
\* cache has offset <= total, holds as many children as its offset says,
\* and holds them as the server lists them: the first offset entries of the
\* directory's sorted listing, in that order.
C24_CacheIsPrefixOfListing ==
    \A d \in Dirs :
        viewCache[d].has =>
            /\ viewCache[d].offset <= viewCache[d].total
            /\ viewCache[d].offset = Len(viewCache[d].children)
            /\ viewCache[d].total = Len(Sorted[d])
            /\ viewCache[d].children =
                   [i \in 1..viewCache[d].offset |-> Sorted[d][i].name]

\* The case of C24: after a refresh, the cache holds a folder whose pages
\* were all loaded, the second one by "Load more".
C24_Witness ==
    /\ doc.gen > 0 /\ doc.attached
    /\ \E d \in TopFolders :
          /\ viewCache[d].has
          /\ viewCache[d].offset > PAGE_SIZE
          /\ viewCache[d].offset = viewCache[d].total

\* The rows of folder d in the document: the items of its lists, in order.
RECURSIVE ItemsFrom(_, _, _)
ItemsFrom(lists, gen, i) ==
    IF i > Len(lists) THEN << >>
    ELSE (IF lists[i].gen = gen THEN lists[i].items ELSE << >>)
         \o ItemsFrom(lists, gen, i + 1)

RowsInDocument(d) == ItemsFrom(viewLists[d], doc.gen, 1)

\* C27: as long as the only clicks are clicks on arrows and on "Load more"
\* (no refresh), whatever the order of the responses and also when a click
\* is made while the request of an earlier one is under way, the rows of a
\* folder never show the same child twice, and the offset of the folder's
\* cache entry is the number of distinct children its rows show.
C27_NoChildRenderedTwice ==
    doc.gen = 0 =>
        \A d \in Dirs :
            LET rows == RowsInDocument(d)
            IN  /\ \A i, j \in 1..Len(rows) : i # j => rows[i] # rows[j]
                /\ (viewCache[d].has /\ rows # << >>) =>
                       viewCache[d].offset = Cardinality(Range(rows))

(***************************************************************************)
(* Properties of clicks made while a walk is under way                     *)
(***************************************************************************)
\* The walk of a folder toggle that selected D has just come to its end;
\* while it was under way one more click was made, the one that deselected
\* D; the walk of that click has ended before, and no walk is under way.
SelectEndedAfterDeselect ==
    /\ event.op = "toggle" /\ event.checked /\ event.walkDone
    /\ event.late = << [op |-> "toggle", root |-> event.root, checked |-> FALSE] >>
    /\ clicks = event.click + 1
    /\ \A i \in 1..Len(tasks) : tasks[i].phase # "walk"

Unselected(D) ==
    \A k \in ({D} \cup DescKeys(D)) \cap Keys : checkMap[k] \in {"false", "absent"}

\* C26: if folder D is selected and then deselected before the walk of the
\* select has finished, then once both walks have come to their end, D and
\* everything listed below D is unselected, in whatever order the responses
\* of the two walks arrive - so also when the walk of the select is the one
\* that ends last.
C26_LastToggleWins ==
    SelectEndedAfterDeselect => Unselected(event.root)

(***************************************************************************)
(* Properties of the walk (fetchAllChildrenBfs)                            *)
(***************************************************************************)
\* The walk started by click c waits for a page.
Walking(c) ==
    \E i \in 1..Len(tasks) : tasks[i].click = c /\ tasks[i].phase = "walk"

\* The directories a walk from root comes to when it descends into exactly
\* the children that are directories (not symbolic links) and that the
\* predicate allows: the least such set, from the server's listing.
RECURSIVE Descended(_, _)
Descended(S, allow) ==
    LET more == {e.abs : e \in UNION {{x \in Range(Sorted[d]) :
                                          x.isdir /\ shouldDescend(allow, x.abs)} :
                                      d \in S}}
    IN  IF more \subseteq S THEN S ELSE Descended(S \cup more, allow)

\* The offsets of the pages of a directory of n children: 0, PAGE_SIZE, ...
\* below n; an empty directory is asked for once.
PageOffsets(n) == {0} \cup {o \in 0..n : o % PAGE_SIZE = 0 /\ o < n}

NoRepeat(s) == \A i, j \in 1..Len(s) : i # j => s[i] # s[j]

\* The walk that has just come to its end, with no click made since the one
\* that started it.
WalkEnded ==
    /\ event.walkDone /\ event.op \in {"toggle", "selectAll"}
    /\ event.click = clicks

WalkedOnce ==
    WalkEnded =>
        LET into == Descended({event.root}, allowMap)
        IN  /\ NoRepeat(event.asked)
            /\ Range(event.asked) =
                   UNION {{<< d, o >> : o \in PageOffsets(Len(Sorted[d]))} : d \in into}
            /\ NoRepeat(event.seen)
            /\ Range(event.seen) =
                   UNION {{Append(d, e.name) : e \in Range(Sorted[d])} : d \in into}
            /\ \A d \in into : KindOf(d) = "dir"

\* C28: on an unchanging tree every walk comes to its end; when it has, it
\* has asked for each page of each directory it descended into exactly once
\* and for no other page, it has handed each child of those directories to
\* its visitor exactly once, and the directories it descended into are the
\* start and exactly the children that are directories and that the
\* predicate allows - never a file, never a symbolic link.
C28_WalkEndsAndVisitsOnce ==
    /\ \A c \in 1..MaxWalkClicks : Walking(c) ~> ~Walking(c)
    /\ [](WalkedOnce)

\* The case of C28: a walk has ended that read a directory in more than one
\* page, descended below its start, met a symbolic link to a directory and
\* left a directory aside that the predicate does not allow.
C28_Witness ==
    /\ WalkEnded
    /\ \E x \in Range(event.asked) : x[2] > 0
    /\ \E x \in Range(event.asked) : x[1] # event.root
    /\ \E r \in Range(event.seen) : KindOf(r) = "link"
    /\ \E r \in Range(event.seen) :
           /\ KindOf(r) = "dir"
           /\ r \notin Descended({event.root}, allowMap)

=============================================================================
